---- MODULE Spec2Model ----
(***************************************************************************)
(* otlp-wire: counting, splitting and extraction on OTLP protobuf wire     *)
(* bytes (src/otlpwire.go).  A buffer is a sequence of bytes 0..255; a Go  *)
(* position pos is 0-based, so data[pos:] is SubSeq(data, pos+1, Len).     *)
(***************************************************************************)
EXTENDS Integers, Sequences, FiniteSets, TLC

\* ------------------------------------------------------------------------
\* Bounds of the model
\* ------------------------------------------------------------------------
MaxResources == 2
MaxPoints == 2
MaxRawLen == 4
NumGoroutines == 2
MaxVariants == 2

\* ------------------------------------------------------------------------
\* protowire: wire types and the primitive codec the package calls
\* ------------------------------------------------------------------------
VarintType == 0
Fixed64Type == 1
BytesType == 2
StartGroupType == 3
EndGroupType == 4
Fixed32Type == 5

\* protowire error codes (negative lengths)
errCodeTruncated == -1
errCodeFieldNumber == -2
errCodeOverflow == -3

\* data[pos:]
From(data, pos) == SubSeq(data, pos + 1, Len(data))

\* 2^28: a varint's low four bytes; the value is kept as lo + hi * 2^28 so
\* that no 64-bit quantity is ever formed.  hi saturates at 64 (value >= 2^34).
Pow28 == 268435456

Min(a, b) == IF a < b THEN a ELSE b

RECURSIVE varintLoop(_, _, _, _, _)
varintLoop(b, i, lo, mul, hi) ==
    IF i >= Len(b) THEN [lo |-> 0, hi |-> 0, n |-> errCodeTruncated]
    ELSE LET y == b[i + 1]
             p == y % 128
             lo2 == IF i < 4 THEN lo + p * mul ELSE lo
             hi2 == IF i < 4 THEN hi
                    ELSE IF i = 4 THEN Min(64, hi + p)
                    ELSE IF p > 0 THEN 64 ELSE hi
         IN  IF i = 9
             THEN IF y < 2 THEN [lo |-> lo2, hi |-> hi2, n |-> 10]
                  ELSE [lo |-> 0, hi |-> 0, n |-> errCodeOverflow]
             ELSE IF y < 128 THEN [lo |-> lo2, hi |-> hi2, n |-> i + 1]
             ELSE varintLoop(b, i + 1, lo2, IF i < 3 THEN mul * 128 ELSE mul, hi2)

\* protowire.ConsumeVarint: (value, n), n < 0 on error
ConsumeVarint(b) == varintLoop(b, 0, 0, 1, 0)

\* protowire.ConsumeTag: (number, type, n); a number below 1 or above
\* MaxInt32 is errCodeFieldNumber
ConsumeTag(b) ==
    LET v == ConsumeVarint(b)
    IN  IF v.n < 0 THEN [num |-> 0, typ |-> 0, n |-> v.n]
        ELSE IF v.hi >= 64 THEN [num |-> 0, typ |-> 0, n |-> errCodeFieldNumber]
        ELSE LET num == (v.lo \div 8) + v.hi * (Pow28 \div 8)
             IN  IF num < 1 THEN [num |-> 0, typ |-> 0, n |-> errCodeFieldNumber]
                 ELSE [num |-> num, typ |-> v.lo % 8, n |-> v.n]

\* the announced length is not compared with the bytes that remain
ConsumeBytesUnchecked(b) ==
    LET m == ConsumeVarint(b)
    IN  IF m.n < 0 THEN [v |-> <<>>, n |-> m.n]
        ELSE IF m.hi > 0 THEN [v |-> <<>>, n |-> errCodeTruncated]
        ELSE [v |-> SubSeq(b, m.n + 1, Min(Len(b), m.n + m.lo)), n |-> m.n + m.lo]

\* protowire.ConsumeBytes: (payload, n); a length beyond the remaining
\* bytes is errCodeTruncated
ConsumeBytes(b) ==
    LET m == ConsumeVarint(b)
    IN  IF m.n < 0 THEN [v |-> <<>>, n |-> m.n]
        ELSE IF m.hi > 0 \/ m.lo > Len(b) - m.n THEN [v |-> <<>>, n |-> errCodeTruncated]
        ELSE [v |-> SubSeq(b, m.n + 1, m.n + m.lo), n |-> m.n + m.lo]

\* four bytes are taken as present without looking at the length
ConsumeFixed32Unchecked(b) == 4

\* protowire.ConsumeFixed32 / ConsumeFixed64: only the length is used
ConsumeFixed32(b) == IF Len(b) < 4 THEN errCodeTruncated ELSE 4
ConsumeFixed64(b) == IF Len(b) < 8 THEN errCodeTruncated ELSE 8

RECURSIVE AppendVarint(_, _)
\* protowire.AppendVarint: base-128 little-endian groups
AppendVarint(b, v) ==
    IF v < 128 THEN Append(b, v)
    ELSE AppendVarint(Append(b, 128 + (v % 128)), v \div 128)

\* protowire.AppendTag: the varint of (num << 3) | typ
AppendTag(b, num, typ) == AppendVarint(b, num * 8 + typ)

\* protowire.AppendBytes: length prefix, then the payload
AppendBytes(b, v) == AppendVarint(b, Len(v)) \o v

\* ------------------------------------------------------------------------
\* skipField (src/otlpwire.go:353)
\* ------------------------------------------------------------------------
\* a wire type without a case is taken as a field with no content
skipFieldGroupsEmpty(data, wireType) ==
    CASE wireType = VarintType -> ConsumeVarint(data).n
      [] wireType = Fixed64Type -> ConsumeFixed64(data)
      [] wireType = BytesType -> ConsumeBytes(data).n
      [] wireType = Fixed32Type -> ConsumeFixed32(data)
      [] OTHER -> 0

\* a length-delimited field is skipped by its length prefix only
skipFieldLengthOnly(data, wireType) ==
    CASE wireType = VarintType -> ConsumeVarint(data).n
      [] wireType = Fixed64Type -> ConsumeFixed64(data)
      [] wireType = BytesType -> ConsumeVarint(data).n
      [] wireType = Fixed32Type -> ConsumeFixed32(data)
      [] OTHER -> -1

skipField(data, wireType) ==
    CASE wireType = VarintType -> ConsumeVarint(data).n
      [] wireType = Fixed64Type -> ConsumeFixed64(data)
      [] wireType = BytesType -> ConsumeBytes(data).n
      [] wireType = Fixed32Type -> ConsumeFixed32(data)
      [] OTHER -> -1

\* ------------------------------------------------------------------------
\* Counting: one loop per message level, all of the same shape
\* (countMetricDataPoints .. countInScopeSpans, src/otlpwire.go:225-649).
\* Schema(msg) is what differs between the functions: the field numbers
\* that are descended into, the function called on the payload ("" when the
\* payload is a counted leaf) and the two error messages.
\* ------------------------------------------------------------------------
Nil == "nil"

\* the variant list without Summary
MetricVariantFieldsNoSummary == {5, 7, 9, 10}

\* fieldNum == 5 || 7 || 9 || 10 || 11: Gauge, Sum, Histogram,
\* ExponentialHistogram, Summary
MetricVariantFields == {5, 7, 9, 10, 11}

Schema(msg) ==
    CASE msg = "ExportMetricsServiceRequest" ->
            [fields |-> {1}, child |-> "ResourceMetrics",
             tagErr |-> "malformed protobuf tag in ExportMetricsServiceRequest",
             bytesErr |-> "invalid bytes in ResourceMetrics"]
      [] msg = "ResourceMetrics" ->
            [fields |-> {2}, child |-> "ScopeMetrics",
             tagErr |-> "malformed protobuf tag in ResourceMetrics",
             bytesErr |-> "invalid bytes in ScopeMetrics"]
      [] msg = "ScopeMetrics" ->
            [fields |-> {2}, child |-> "Metric",
             tagErr |-> "malformed protobuf tag in ScopeMetrics",
             bytesErr |-> "invalid bytes in Metrics"]
      [] msg = "Metric" ->
            [fields |-> MetricVariantFields, child |-> "metric data points",
             tagErr |-> "malformed protobuf tag in Metric",
             bytesErr |-> "invalid bytes in metric data"]
      [] msg = "metric data points" ->
            [fields |-> {1}, child |-> "",
             tagErr |-> "malformed protobuf tag in metric data points",
             bytesErr |-> "invalid bytes in DataPoints"]
      [] msg = "ExportLogsServiceRequest" ->
            [fields |-> {1}, child |-> "ResourceLogs",
             tagErr |-> "malformed protobuf tag in ExportLogsServiceRequest",
             bytesErr |-> "invalid bytes in ResourceLogs"]
      [] msg = "ResourceLogs" ->
            [fields |-> {2}, child |-> "ScopeLogs",
             tagErr |-> "malformed protobuf tag in ResourceLogs",
             bytesErr |-> "invalid bytes in ScopeLogs"]
      [] msg = "ScopeLogs" ->
            [fields |-> {2}, child |-> "",
             tagErr |-> "malformed protobuf tag in ScopeLogs",
             bytesErr |-> "invalid bytes in LogRecords"]
      [] msg = "ExportTracesServiceRequest" ->
            [fields |-> {1}, child |-> "ResourceSpans",
             tagErr |-> "malformed protobuf tag in ExportTracesServiceRequest",
             bytesErr |-> "invalid bytes in ResourceSpans"]
      [] msg = "ResourceSpans" ->
            [fields |-> {2}, child |-> "ScopeSpans",
             tagErr |-> "malformed protobuf tag in ResourceSpans",
             bytesErr |-> "invalid bytes in ScopeSpans"]
      [] msg = "ScopeSpans" ->
            [fields |-> {2}, child |-> "",
             tagErr |-> "malformed protobuf tag in ScopeSpans",
             bytesErr |-> "invalid bytes in Spans"]

\* `return count, err`: the count so far goes out with the error
countErrorPartial(count, err) == [count |-> count, err |-> err]

\* the value returned on an error: count 0 and the error
countError(count, err) == [count |-> 0, err |-> err]

\* `count = c`: the last sub-count replaces the sum
accumulateLast(count, c) == c

\* only the first sub-count that is not zero is taken
accumulateFirst(count, c) == IF count > 0 THEN count ELSE c

\* count += c
accumulate(count, c) == count + c

\* the leaf is walked over but not counted
incrementNone(count) == count

\* count++
increment(count) == count + 1

RECURSIVE countLoop(_, _, _, _)

\* the payload of a leaf is walked as well, and an error in it ends the pass
countLoopIntoLeaf(data, pos, count, msg) ==
    LET tag == ConsumeTag(From(data, pos))
        p1 == pos + tag.n
        bs == ConsumeBytes(From(data, p1))
        c == countLoop(bs.v, 0, 0, IF Schema(msg).child = "" THEN msg ELSE Schema(msg).child)
        n == skipField(From(data, p1), tag.typ)
    IN  IF pos >= Len(data) THEN [count |-> count, err |-> Nil]
        ELSE IF tag.n < 0 THEN countError(count, Schema(msg).tagErr)
        ELSE IF tag.num \in Schema(msg).fields /\ tag.typ = BytesType
        THEN IF bs.n < 0 THEN countError(count, Schema(msg).bytesErr)
             ELSE IF c.err # Nil THEN countError(count, c.err)
             ELSE IF Schema(msg).child = ""
             THEN countLoop(data, p1 + bs.n, increment(count), msg)
             ELSE countLoop(data, p1 + bs.n, accumulate(count, c.count), msg)
        ELSE IF n < 0 THEN countError(count, "failed to skip field")
             ELSE countLoop(data, p1 + n, count, msg)

\* the body of `for pos < len(data)` with the locals pos and count
countLoop(data, pos, count, msg) ==
    IF pos >= Len(data) THEN [count |-> count, err |-> Nil]
    ELSE
    LET tag == ConsumeTag(From(data, pos))
        p1 == pos + tag.n
    IN  IF tag.n < 0 THEN countError(count, Schema(msg).tagErr)
        ELSE IF tag.num \in Schema(msg).fields /\ tag.typ = BytesType
        THEN LET bs == ConsumeBytes(From(data, p1))
             IN  IF bs.n < 0 THEN countError(count, Schema(msg).bytesErr)
                 ELSE IF Schema(msg).child = ""
                 THEN countLoop(data, p1 + bs.n, increment(count), msg)
                 ELSE LET c == countLoop(bs.v, 0, 0, Schema(msg).child)
                      IN  IF c.err # Nil THEN countError(count, c.err)
                          ELSE countLoop(data, p1 + bs.n, accumulate(count, c.count), msg)
        ELSE LET n == skipField(From(data, p1), tag.typ)
             IN  IF n < 0 THEN countError(count, "failed to skip field")
                 ELSE countLoop(data, p1 + n, count, msg)

countMetricDataPoints(data) == countLoop(data, 0, 0, "ExportMetricsServiceRequest")
countLogRecords(data) == countLoop(data, 0, 0, "ExportLogsServiceRequest")
countSpans(data) == countLoop(data, 0, 0, "ExportTracesServiceRequest")
countInResourceMetrics(data) == countLoop(data, 0, 0, "ResourceMetrics")
countInResourceLogs(data) == countLoop(data, 0, 0, "ResourceLogs")
countInResourceSpans(data) == countLoop(data, 0, 0, "ResourceSpans")
countInScopeMetrics(data) == countLoop(data, 0, 0, "ScopeMetrics")
countInMetric(data) == countLoop(data, 0, 0, "Metric")
countDataPoints(data) == countLoop(data, 0, 0, "metric data points")
countInScopeLogs(data) == countLoop(data, 0, 0, "ScopeLogs")
countInScopeSpans(data) == countLoop(data, 0, 0, "ScopeSpans")

\* ------------------------------------------------------------------------
\* Splitting: extractResourceMetrics / Logs / Spans (src/otlpwire.go:653-748)
\* ------------------------------------------------------------------------
extractSchema(kind) ==
    CASE kind = "metrics" ->
            [tagErr |-> "malformed protobuf tag in ExportMetricsServiceRequest",
             bytesErr |-> "invalid bytes in ResourceMetrics"]
      [] kind = "logs" ->
            [tagErr |-> "malformed protobuf tag in ExportLogsServiceRequest",
             bytesErr |-> "invalid bytes in ResourceLogs"]
      [] kind = "traces" ->
            [tagErr |-> "malformed protobuf tag in ExportTracesServiceRequest",
             bytesErr |-> "invalid bytes in ResourceSpans"]

\* `return nil, err`
extractError(err) == [isNil |-> TRUE, elems |-> <<>>, err |-> err]

\* a resource is kept only if it starts with a tag that decodes
appendResourceIfTagged(acc, msgBytes) ==
    IF msgBytes # <<>> /\ ConsumeTag(msgBytes).n < 0 THEN acc
    ELSE Append(acc, msgBytes)

\* the new resource goes to the front
prependResource(acc, msgBytes) == <<msgBytes>> \o acc

\* append(resourceBytes, msgBytes)
appendResource(acc, msgBytes) == Append(acc, msgBytes)

RECURSIVE extractLoop(_, _, _, _)

\* on an error the resources gathered so far are returned, without the error
extractLoopKeepsPartial(data, pos, acc, kind) ==
    LET tag == ConsumeTag(From(data, pos))
        p1 == pos + tag.n
        bs == ConsumeBytes(From(data, p1))
        n == skipField(From(data, p1), tag.typ)
        partial == [isNil |-> (acc = <<>>), elems |-> acc, err |-> Nil]
    IN  IF pos >= Len(data) THEN partial
        ELSE IF tag.n < 0 THEN partial
        ELSE IF tag.num = 1 /\ tag.typ = BytesType
        THEN IF bs.n < 0 THEN partial
             ELSE extractLoop(data, p1 + bs.n, appendResource(acc, bs.v), kind)
        ELSE IF n < 0 THEN partial
             ELSE extractLoop(data, p1 + n, acc, kind)

extractLoop(data, pos, acc, kind) ==
    IF pos >= Len(data)
    THEN [isNil |-> (acc = <<>>), elems |-> acc, err |-> Nil]
    ELSE
    LET tag == ConsumeTag(From(data, pos))
        p1 == pos + tag.n
    IN  IF tag.n < 0 THEN extractError(extractSchema(kind).tagErr)
        ELSE IF tag.num = 1 /\ tag.typ = BytesType
        THEN LET bs == ConsumeBytes(From(data, p1))
             IN  IF bs.n < 0 THEN extractError(extractSchema(kind).bytesErr)
                 ELSE extractLoop(data, p1 + bs.n, appendResource(acc, bs.v), kind)
        ELSE LET n == skipField(From(data, p1), tag.typ)
             IN  IF n < 0 THEN extractError("failed to skip field")
                 ELSE extractLoop(data, p1 + n, acc, kind)

extractResourceMetrics(data) == extractLoop(data, 0, <<>>, "metrics")
extractResourceLogs(data) == extractLoop(data, 0, <<>>, "logs")
extractResourceSpans(data) == extractLoop(data, 0, <<>>, "traces")

\* ------------------------------------------------------------------------
\* Wrapping (src/otlpwire.go:757-813): the three functions are the same code
\* ------------------------------------------------------------------------
\* the resource written as field 2
wrapResourceMetricsField2(resourceMetricsBytes) ==
    AppendBytes(AppendTag(<<>>, 2, BytesType), resourceMetricsBytes)

wrapResourceMetrics(resourceMetricsBytes) ==
    AppendBytes(AppendTag(<<>>, 1, BytesType), resourceMetricsBytes)
wrapResourceLogs(resourceLogsBytes) ==
    AppendBytes(AppendTag(<<>>, 1, BytesType), resourceLogsBytes)
\* the tag, then the resource without its length prefix
wrapResourceSpansNoLength(resourceSpansBytes) ==
    AppendTag(<<>>, 1, BytesType) \o resourceSpansBytes

wrapResourceSpans(resourceSpansBytes) ==
    AppendBytes(AppendTag(<<>>, 1, BytesType), resourceSpansBytes)

\* ------------------------------------------------------------------------
\* Resource extraction (src/otlpwire.go:822-869).  A nil slice and an empty
\* slice are told apart by isNil.
\* ------------------------------------------------------------------------
\* prefix + messageType for the message types the package passes
strcat(prefix, messageType) ==
    CASE prefix = "malformed protobuf tag in " /\ messageType = "ResourceMetrics" ->
            "malformed protobuf tag in ResourceMetrics"
      [] prefix = "malformed protobuf tag in " /\ messageType = "ResourceLogs" ->
            "malformed protobuf tag in ResourceLogs"
      [] prefix = "malformed protobuf tag in " /\ messageType = "ResourceSpans" ->
            "malformed protobuf tag in ResourceSpans"
      [] prefix = "failed to skip field in " /\ messageType = "ResourceMetrics" ->
            "failed to skip field in ResourceMetrics"
      [] prefix = "failed to skip field in " /\ messageType = "ResourceLogs" ->
            "failed to skip field in ResourceLogs"
      [] prefix = "failed to skip field in " /\ messageType = "ResourceSpans" ->
            "failed to skip field in ResourceSpans"

RECURSIVE extractResourceLoop(_, _, _)

\* no early return: the walk goes on and a later Resource replaces this one
resourceFoundKeepLast(data, pos, msgBytes, messageType) ==
    LET rest == extractResourceLoop(data, pos, messageType)
    IN  IF rest.err # Nil \/ rest.v # <<>> THEN rest
        ELSE [isNil |-> FALSE, v |-> msgBytes, err |-> Nil]

\* `return msgBytes, nil`, pos being the position after the field
resourceFound(data, pos, msgBytes, messageType) ==
    [isNil |-> FALSE, v |-> msgBytes, err |-> Nil]

extractResourceLoop(data, pos, messageType) ==
    IF pos >= Len(data)
    THEN \* Resource field not found: []byte{}, nil
         [isNil |-> FALSE, v |-> <<>>, err |-> Nil]
    ELSE
    LET tag == ConsumeTag(From(data, pos))
        p1 == pos + tag.n
    IN  IF tag.n < 0
        THEN [isNil |-> TRUE, v |-> <<>>, err |-> strcat("malformed protobuf tag in ", messageType)]
        ELSE IF tag.num = 1 /\ tag.typ = BytesType
        THEN LET bs == ConsumeBytes(From(data, p1))
             IN  IF bs.n < 0
                 THEN [isNil |-> TRUE, v |-> <<>>, err |-> "invalid bytes in Resource"]
                 ELSE resourceFound(data, p1 + bs.n, bs.v, messageType)
        ELSE LET n == skipField(From(data, p1), tag.typ)
             IN  IF n < 0
                 THEN [isNil |-> TRUE, v |-> <<>>, err |-> strcat("failed to skip field in ", messageType)]
                 ELSE extractResourceLoop(data, p1 + n, messageType)

extractResourceMessage(data, messageType) == extractResourceLoop(data, 0, messageType)
extractResourceFromResourceMetrics(data) == extractResourceMessage(data, "ResourceMetrics")
extractResourceFromResourceLogs(data) == extractResourceMessage(data, "ResourceLogs")
extractResourceFromResourceSpans(data) == extractResourceMessage(data, "ResourceSpans")

\* ------------------------------------------------------------------------
\* Public methods (src/otlpwire.go:66-212).  The count methods and
\* Resource() drop the error of the function they call; SplitByResource
\* turns it into a nil result.
\* ------------------------------------------------------------------------
\* a failed pass is reported as -1
DataPointCountOrMinusOne(m) ==
    IF countMetricDataPoints(m).err # Nil THEN -1 ELSE countMetricDataPoints(m).count

DataPointCount(m) == countMetricDataPoints(m).count
LogRecordCount(l) == countLogRecords(l).count
SpanCount(t) == countSpans(t).count

\* no resources found: the nil slice of the extraction is handed on
splitResultNilWhenEmpty(r) ==
    IF r.err # Nil \/ r.elems = <<>> THEN [isNil |-> TRUE, elems |-> <<>>]
    ELSE [isNil |-> FALSE, elems |-> r.elems]

\* if err != nil { return nil }; otherwise make([]T, len(resourceBytes))
splitResult(r) ==
    IF r.err # Nil THEN [isNil |-> TRUE, elems |-> <<>>]
    ELSE [isNil |-> FALSE, elems |-> r.elems]

MetricsSplitByResource(m) == splitResult(extractResourceMetrics(m))
LogsSplitByResource(l) == splitResult(extractResourceLogs(l))
TracesSplitByResource(t) == splitResult(extractResourceSpans(t))

\* resourceBytes, _ := extractResourceFrom...(r); return resourceBytes
resourceResult(r) == [isNil |-> r.isNil, v |-> r.v]

ResourceMetricsResource(r) == resourceResult(extractResourceFromResourceMetrics(r))
ResourceLogsResource(r) == resourceResult(extractResourceFromResourceLogs(r))
ResourceSpansResource(r) == resourceResult(extractResourceFromResourceSpans(r))

ResourceMetricsAsExportRequest(r) == wrapResourceMetrics(r)
ResourceLogsAsExportRequest(r) == wrapResourceLogs(r)
ResourceSpansAsExportRequest(r) == wrapResourceSpans(r)

\* the methods of the three signal kinds, selected by the type of the value
Kinds == {"metrics", "logs", "traces"}

countBatch(kind, b) ==
    CASE kind = "metrics" -> countMetricDataPoints(b)
      [] kind = "logs" -> countLogRecords(b)
      [] kind = "traces" -> countSpans(b)

Count(kind, b) ==
    CASE kind = "metrics" -> DataPointCount(b)
      [] kind = "logs" -> LogRecordCount(b)
      [] kind = "traces" -> SpanCount(b)

extractResources(kind, b) ==
    CASE kind = "metrics" -> extractResourceMetrics(b)
      [] kind = "logs" -> extractResourceLogs(b)
      [] kind = "traces" -> extractResourceSpans(b)

SplitByResource(kind, b) ==
    CASE kind = "metrics" -> MetricsSplitByResource(b)
      [] kind = "logs" -> LogsSplitByResource(b)
      [] kind = "traces" -> TracesSplitByResource(b)

AsExportRequest(kind, r) ==
    CASE kind = "metrics" -> ResourceMetricsAsExportRequest(r)
      [] kind = "logs" -> ResourceLogsAsExportRequest(r)
      [] kind = "traces" -> ResourceSpansAsExportRequest(r)

countInResource(kind, r) ==
    CASE kind = "metrics" -> countInResourceMetrics(r)
      [] kind = "logs" -> countInResourceLogs(r)
      [] kind = "traces" -> countInResourceSpans(r)

extractResource(kind, r) ==
    CASE kind = "metrics" -> extractResourceFromResourceMetrics(r)
      [] kind = "logs" -> extractResourceFromResourceLogs(r)
      [] kind = "traces" -> extractResourceFromResourceSpans(r)

Resource(kind, r) ==
    CASE kind = "metrics" -> ResourceMetricsResource(r)
      [] kind = "logs" -> ResourceLogsResource(r)
      [] kind = "traces" -> ResourceSpansResource(r)

\* ------------------------------------------------------------------------
\* One pass of the loops above taken one iteration at a time, as a call
\* that runs next to other calls executes it: l holds the locals of the
\* call (count, the list being built) and its return value once it is done;
\* pos is the value of the cursor when the iteration starts.
\* ------------------------------------------------------------------------
NoRet == [count |-> 0, isNil |-> TRUE, elems |-> <<>>, v |-> <<>>, err |-> Nil]

\* return ...
returns(l, ret) == [l EXCEPT !.st = "done", !.ret = ret]

\* countMetricDataPoints / countLogRecords / countSpans
countStep(l, pos, view, msg) ==
    IF pos >= Len(view)
    THEN returns(l, [NoRet EXCEPT !.count = l.count, !.isNil = FALSE])
    ELSE
    LET tag == ConsumeTag(From(view, pos))
        p1 == pos + tag.n
        fail(err) == returns(l, [NoRet EXCEPT !.isNil = FALSE, !.err = err])
    IN  IF tag.n < 0 THEN fail(Schema(msg).tagErr)
        ELSE IF tag.num \in Schema(msg).fields /\ tag.typ = BytesType
        THEN LET bs == ConsumeBytes(From(view, p1))
                 c == countLoop(bs.v, 0, 0, Schema(msg).child)
             IN  IF bs.n < 0 THEN fail(Schema(msg).bytesErr)
                 ELSE IF c.err # Nil THEN fail(c.err)
                 ELSE [l EXCEPT !.pos = p1 + bs.n, !.count = @ + c.count]
        ELSE LET n == skipField(From(view, p1), tag.typ)
             IN  IF n < 0 THEN fail("failed to skip field")
                 ELSE [l EXCEPT !.pos = p1 + n]

\* extractResourceMetrics / Logs / Spans
extractStep(l, pos, view, kind) ==
    IF pos >= Len(view)
    THEN returns(l, [NoRet EXCEPT !.isNil = (l.elems = <<>>), !.elems = l.elems])
    ELSE
    LET tag == ConsumeTag(From(view, pos))
        p1 == pos + tag.n
        fail(err) == returns(l, [NoRet EXCEPT !.err = err])
    IN  IF tag.n < 0 THEN fail(extractSchema(kind).tagErr)
        ELSE IF tag.num = 1 /\ tag.typ = BytesType
        THEN LET bs == ConsumeBytes(From(view, p1))
             IN  IF bs.n < 0 THEN fail(extractSchema(kind).bytesErr)
                 ELSE [l EXCEPT !.pos = p1 + bs.n, !.elems = Append(@, bs.v)]
        ELSE LET n == skipField(From(view, p1), tag.typ)
             IN  IF n < 0 THEN fail("failed to skip field")
                 ELSE [l EXCEPT !.pos = p1 + n]

\* extractResourceMessage
extractResourceStep(l, pos, view, messageType) ==
    IF pos >= Len(view) THEN returns(l, [NoRet EXCEPT !.isNil = FALSE])
    ELSE
    LET tag == ConsumeTag(From(view, pos))
        p1 == pos + tag.n
        fail(err) == returns(l, [NoRet EXCEPT !.err = err])
    IN  IF tag.n < 0 THEN fail(strcat("malformed protobuf tag in ", messageType))
        ELSE IF tag.num = 1 /\ tag.typ = BytesType
        THEN LET bs == ConsumeBytes(From(view, p1))
             IN  IF bs.n < 0 THEN fail("invalid bytes in Resource")
                 ELSE returns(l, [NoRet EXCEPT !.isNil = FALSE, !.v = bs.v])
        ELSE LET n == skipField(From(view, p1), tag.typ)
             IN  IF n < 0 THEN fail(strcat("failed to skip field in ", messageType))
                 ELSE [l EXCEPT !.pos = p1 + n]

\* one cursor for all calls, as a package-level variable would be
cursorSlotShared(w) == 1

\* `pos := 0`: the cursor is a local of the call w
cursorSlot(w) == w

\* ------------------------------------------------------------------------
\* One call of a counting function with the calls it makes, as the run-time
\* stack holds them: countMetricDataPoints calls countInResourceMetrics on
\* msgBytes, and so on down to countDataPoints.  A frame is one call: its
\* function (op and, for a counter, the message msg it walks), the range
\* [lo, hi) of the batch its argument data is, and its locals pos and
\* count; fieldPos is the value of pos after the last `pos += tagLen`.
\* SplitByResource and Resource() are calls of one frame.
\* ------------------------------------------------------------------------
NewFrame(op, msg, lo, hi) ==
    [op |-> op, msg |-> msg, st |-> "run", lo |-> lo, hi |-> hi, pos |-> 0,
     fieldPos |-> 0, count |-> 0, elems |-> <<>>, ret |-> NoRet]

NoPass == [st |-> "idle", frames |-> <<>>, ret |-> NoRet]

\* pos = n
advanceTo(pos, n) == n

\* pos += n
advance(pos, n) == pos + n

\* s[:len(s)-1]
Front(s) == SubSeq(s, 1, Len(s) - 1)

RECURSIVE passReturn(_, _)
\* the innermost call returns ret = (count, err) to callers, innermost last:
\* `if err != nil { return 0, err }` in each caller, `count += c` otherwise
passReturn(callers, ret) ==
    IF callers = <<>>
    THEN [st |-> "done", frames |-> <<>>,
          ret |-> [NoRet EXCEPT !.isNil = FALSE, !.count = ret.count, !.err = ret.err]]
    ELSE LET f == callers[Len(callers)]
         IN  IF ret.err # Nil
             THEN passReturn(Front(callers), countError(f.count, ret.err))
             ELSE [st |-> "run",
                   frames |-> [callers EXCEPT ![Len(callers)].count =
                                  accumulate(@, ret.count)],
                   ret |-> NoRet]

\* one iteration of the loop of the innermost call of p, buf being the batch
passStep(p, buf, k) ==
    LET f == p.frames[Len(p.frames)]
        callers == Front(p.frames)
        view == SubSeq(buf, f.lo + 1, f.hi)
        tag == ConsumeTag(From(view, f.pos))
        p1 == advance(f.pos, tag.n)
        bs == ConsumeBytes(From(view, p1))
        n == skipField(From(view, p1), tag.typ)
        goOn(g) == [p EXCEPT !.frames = Append(callers, g)]
        nx == IF f.op = "split" THEN extractStep(f, f.pos, view, k)
              ELSE extractResourceStep(f, f.pos, view, f.msg)
    IN  IF f.op # "count"
        THEN IF nx.st = "done"
             THEN [st |-> "done", frames |-> <<>>, ret |-> nx.ret]
             ELSE goOn(nx)
        ELSE IF f.pos >= Len(view)
        THEN passReturn(callers, [count |-> f.count, err |-> Nil])
        ELSE IF tag.n < 0
        THEN passReturn(callers, countError(f.count, Schema(f.msg).tagErr))
        ELSE IF tag.num \in Schema(f.msg).fields /\ tag.typ = BytesType
        THEN IF bs.n < 0
             THEN passReturn(callers, countError(f.count, Schema(f.msg).bytesErr))
             ELSE LET g == [f EXCEPT !.fieldPos = p1, !.pos = advance(p1, bs.n)]
                  IN  IF Schema(f.msg).child = ""
                      THEN goOn([g EXCEPT !.count = increment(@)])
                      ELSE [p EXCEPT !.frames =
                               callers \o
                               <<g, NewFrame("count", Schema(f.msg).child,
                                             f.lo + g.pos - Len(bs.v), f.lo + g.pos)>>]
        ELSE IF n < 0
        THEN passReturn(callers, countError(f.count, "failed to skip field"))
        ELSE goOn([f EXCEPT !.fieldPos = p1, !.pos = advance(p1, n)])

\* skipField not called yet
NoSkip == [read |-> FALSE, typ |-> 0, n |-> 0]

\* ------------------------------------------------------------------------
\* Lazy iteration with a deferred error: ResourceMetrics(), ResourceLogs()
\* and ResourceSpans() return (iter.Seq[T], func() error).  An iteration is
\* Active or Done; it keeps a cursor, the sub-ranges yielded so far, the
\* deferred error and whether the consumer has left the loop.
\* ------------------------------------------------------------------------
MalformedTag == "malformed tag"
TruncatedPayload == "truncated payload"
UnsupportedWireType == "unsupported wire type"
UnexpectedWireType == "wrong wire type"

\* the iteration formed from a view: Active, cursor at the first byte
newIteration ==
    [state |-> "Active", pos |-> 0, items |-> <<>>, err |-> Nil,
     abandoned |-> FALSE, got |-> "unread"]

\* the error is recorded but the iteration goes on one byte further
iterFailResync(it, err) == [it EXCEPT !.err = err, !.pos = @ + 1]

\* a decode or skip error: Done, the error recorded for later retrieval
iterFail(it, err) == [it EXCEPT !.state = "Done", !.err = err]

\* the answer of yield is not looked at
iterYieldIgnoreStop(it, continue) == it

\* after yield(sub_range): stop at once when the consumer signals stop
iterYield(it, continue) ==
    IF continue THEN it ELSE [it EXCEPT !.state = "Done"]

\* a skip fails on a group or unknown wire type, or on a cut-off value
skipError(wireType) ==
    IF wireType \in {VarintType, Fixed64Type, BytesType, Fixed32Type}
    THEN TruncatedPayload ELSE UnsupportedWireType

\* one "produce next" transition of an Active iteration over view for the
\* field number target; continue is the consumer's answer to a yield
forEachStep(it, view, target, continue) ==
    IF it.pos >= Len(view) THEN [it EXCEPT !.state = "Done"]
    ELSE
    LET tag == ConsumeTag(From(view, it.pos))
        p1 == it.pos + tag.n
    IN  IF tag.n < 0 THEN iterFail(it, MalformedTag)
        ELSE IF tag.num = target
        THEN IF tag.typ # BytesType THEN iterFail(it, UnexpectedWireType)
             ELSE LET bs == ConsumeBytes(From(view, p1))
                  IN  IF bs.n < 0 THEN iterFail(it, TruncatedPayload)
                      ELSE iterYield([it EXCEPT !.pos = p1 + bs.n,
                                                !.items = Append(@, bs.v)],
                                     continue)
        ELSE LET n == skipField(From(view, p1), tag.typ)
             IN  IF n < 0 THEN iterFail(it, skipError(tag.typ))
                 ELSE [it EXCEPT !.pos = p1 + n]

\* the error accessor: the content of the deferred-error slot
getErr(it) == it.err

\* ------------------------------------------------------------------------
\* Fixed-size identifier fields of a Span: TraceID() (field 1, 16 bytes),
\* SpanID() (field 2, 8 bytes), ParentSpanID() (field 4, 8 bytes), all through
\* extractFixedBytesField.  A result is the array returned and the error.
\* ------------------------------------------------------------------------
SizeMismatch == "unexpected size"

\* [n]byte{}
Zeros(n) == [j \in 1..n |-> 0]

\* the absent (proto3 default) identifier, no error
absentId(expectedSize) == [v |-> Zeros(expectedSize), err |-> Nil]

idError(expectedSize, err) == [v |-> Zeros(expectedSize), err |-> err]

\* copy(id[:], payload): the payload cut or zero-padded to the size
sizeMismatchPad(payload, expectedSize) ==
    [v |-> SubSeq(payload \o Zeros(expectedSize), 1, expectedSize), err |-> Nil]

\* a payload that is neither empty nor of the expected size
sizeMismatch(payload, expectedSize) == idError(expectedSize, SizeMismatch)

RECURSIVE fixedBytesLoop(_, _, _, _)
fixedBytesLoop(data, pos, fieldNum, expectedSize) ==
    IF pos >= Len(data) THEN absentId(expectedSize)
    ELSE
    LET tag == ConsumeTag(From(data, pos))
        p1 == pos + tag.n
    IN  IF tag.n < 0 THEN idError(expectedSize, MalformedTag)
        ELSE IF tag.num = fieldNum
        THEN IF tag.typ # BytesType THEN idError(expectedSize, UnexpectedWireType)
             ELSE LET bs == ConsumeBytes(From(data, p1))
                  IN  IF bs.n < 0 THEN idError(expectedSize, TruncatedPayload)
                      ELSE IF Len(bs.v) = 0 THEN absentId(expectedSize)
                      ELSE IF Len(bs.v) # expectedSize
                      THEN sizeMismatch(bs.v, expectedSize)
                      ELSE [v |-> bs.v, err |-> Nil]
        ELSE LET n == skipField(From(data, p1), tag.typ)
             IN  IF n < 0 THEN idError(expectedSize, skipError(tag.typ))
                 ELSE fixedBytesLoop(data, p1 + n, fieldNum, expectedSize)

extractFixedBytesField(data, fieldNum, expectedSize) ==
    fixedBytesLoop(data, 0, fieldNum, expectedSize)

SpanTraceID(s) == extractFixedBytesField(s, 1, 16)
SpanSpanID(s) == extractFixedBytesField(s, 2, 8)
SpanParentSpanID(s) == extractFixedBytesField(s, 4, 8)

\* ------------------------------------------------------------------------
\* Inputs: batches as a marshaller emits them (the fixtures of
\* TestMetricsData_SplitByResource, src/wireformat_test.go:146-168): one
\* resource per entry of resourceCounts, each with a Resource, one scope,
\* (one named metric with one variant,) and that many leaves.
\* ------------------------------------------------------------------------
RECURSIVE Repeat(_, _)
Repeat(s, n) == IF n = 0 THEN <<>> ELSE s \o Repeat(s, n - 1)

\* one length-delimited field
Field(num, payload) == AppendBytes(AppendTag(<<>>, num, BytesType), payload)

Root(kind) ==
    CASE kind = "metrics" -> "ExportMetricsServiceRequest"
      [] kind = "logs" -> "ExportLogsServiceRequest"
      [] kind = "traces" -> "ExportTracesServiceRequest"

ResourceMsg(kind) == Schema(Root(kind)).child

\* the messages below the root, in descent order
RECURSIVE Levels(_)
Levels(msg) == IF msg = "" THEN <<>> ELSE <<msg>> \o Levels(Schema(msg).child)

VariantNums == {5, 7, 9, 10, 11}

\* a payload long enough for a two-byte length prefix
LongPayload == Repeat(<<255>>, 128)

\* the field written at a level to go one level down
GenField(msg, variant) ==
    IF msg = "Metric" THEN variant ELSE CHOOSE f \in Schema(msg).fields : TRUE

\* the content of a leaf (a data point, log record or span): field 2,
\* a varint
LeafPayload == <<16, 1>>

\* fields a marshaller writes next to the descent path: the Resource of a
\* resource (one attribute whose key is a letter), the name of a metric
StdFields(msg, idx) ==
    IF msg \in {"ResourceMetrics", "ResourceLogs", "ResourceSpans"}
    THEN Field(1, Field(1, Field(1, <<65 + idx>>)))
    ELSE IF msg = "Metric" THEN Field(1, <<109>>)
    ELSE <<>>

\* fields of number 15 and 16, one per wire type the package skips
UnknownFields ==
    { <<120, 1>>,                          \* 15: varint 1
      <<120, 128, 1>>,                     \* 15: varint 128
      <<121, 1, 2, 3, 4, 5, 6, 7, 8>>,     \* 15: fixed64
      <<122, 1, 255>>,                     \* 15: one byte
      <<125, 1, 2, 3, 4>>,                 \* 15: fixed32
      <<128, 1, 1>> }                      \* 16: varint 1, two-byte tag

NoDeco == [msg |-> "", item |-> <<>>, front |-> FALSE]

Decorate(msg, body, deco) ==
    IF deco.msg # msg THEN body
    ELSE IF deco.front THEN deco.item \o body ELSE body \o deco.item

RECURSIVE Build(_, _, _, _, _)
\* the message msg on the way to n leaves
Build(msg, n, variant, deco, idx) ==
    LET f == GenField(msg, variant)
        core == IF Schema(msg).child = "" THEN Repeat(Field(f, LeafPayload), n)
                ELSE Field(f, Build(Schema(msg).child, n, variant, deco, idx))
    IN  Decorate(msg, StdFields(msg, idx) \o core, deco)

RECURSIVE BuildResources(_, _, _, _, _)
BuildResources(kind, counts, variant, deco, i) ==
    IF i > Len(counts) THEN <<>>
    ELSE Field(1, Build(ResourceMsg(kind), counts[i], variant, deco, i - 1))
         \o BuildResources(kind, counts, variant, deco, i + 1)

Batch(kind, counts, variant, deco) ==
    Decorate(Root(kind), BuildResources(kind, counts, variant, deco, 1), deco)

\* a second occurrence of the descent field of msg, holding one leaf
ExtraMatch(msg, variant) ==
    IF Schema(msg).child = "" THEN Field(GenField(msg, variant), LeafPayload)
    ELSE Field(GenField(msg, variant), Build(Schema(msg).child, 1, variant, NoDeco, 0))

CountSeqs == UNION {[1..k -> 0..MaxPoints] : k \in 0..MaxResources}

\* one extra field at one level, before or after the regular content
Decos(kind) ==
    {NoDeco} \cup
    { [msg |-> Levels(Root(kind))[l], item |-> it, front |-> fr] :
        l \in 1..Len(Levels(Root(kind))), it \in UnknownFields, fr \in BOOLEAN } \cup
    { [msg |-> Levels(Root(kind))[l], item |-> ExtraMatch(Levels(Root(kind))[l], 7), front |-> fr] :
        l \in 2..Len(Levels(Root(kind))), fr \in BOOLEAN } \cup
    \* a resource of more than 127 bytes
    { [msg |-> ResourceMsg(kind), item |-> Field(15, LongPayload), front |-> TRUE] }

Variations(kind) ==
    { <<5, d>> : d \in Decos(kind) } \cup
    (IF kind = "metrics" THEN { <<v, NoDeco>> : v \in VariantNums } ELSE {})

\* "Two resources with leaf counts 5 and 15"
ScenarioCounts == <<5, 15>>

\* resources with 1, 2, ... leaves
RisingCounts == { [j \in 1..n |-> Min(j, MaxPoints)] : n \in 0..MaxResources }

\* the well-formed batches of one signal kind: every sequence of counts,
\* and every variation of the batches with rising counts
WellFormedInputs(k) ==
    { Batch(k, cs, 5, NoDeco) : cs \in CountSeqs }
    \cup { Batch(k, cs, vd[1], vd[2]) : cs \in RisingCounts, vd \in Variations(k) }
    \cup { Batch(k, ScenarioCounts, 5, NoDeco) }

\* ------------------------------------------------------------------------
\* Metrics batches of one resource, one scope and one Metric that holds a
\* sequence of variant containers, any of Gauge, Sum, Histogram,
\* ExponentialHistogram, Summary in any order and repeated, each with its
\* own number of data points
\* ------------------------------------------------------------------------
RECURSIVE Concat(_)
Concat(ss) == IF ss = <<>> THEN <<>> ELSE ss[1] \o Concat(Tail(ss))

\* one variant container with n data points
VariantContainer(variant, n) == Field(variant, Repeat(Field(1, LeafPayload), n))

\* cs is a sequence of <<variant, number of data points>>
MetricBatch(cs) ==
    Field(1, StdFields("ResourceMetrics", 0) \o
             Field(2, Field(2, StdFields("Metric", 0) \o
                               Concat([j \in 1..Len(cs) |->
                                          VariantContainer(cs[j][1], cs[j][2])]))))

MultiVariantInputs(maxVariants) ==
    { MetricBatch(cs) :
        cs \in UNION { [1..n -> VariantNums \X (0..MaxPoints)] : n \in 1..maxVariants } }

\* ------------------------------------------------------------------------
\* Inputs that are not well-formed: a batch cut short at any byte, or
\* holding one field that cannot be decoded or skipped at one level
\* ------------------------------------------------------------------------
BadFields ==
    { <<0>>,            \* field number 0
      <<123>>,          \* 15: start group
      <<124>>,          \* 15: end group
      <<126, 1>>,       \* 15: wire type 6
      <<122, 5, 1>>,    \* 15: 5 bytes announced, 1 present
      <<120, 128>>,     \* 15: unfinished varint
      <<128>> }         \* unfinished tag

BadDecos(kind) ==
    { [msg |-> Levels(Root(kind))[l], item |-> it, front |-> fr] :
        l \in 1..Len(Levels(Root(kind))), it \in BadFields, fr \in BOOLEAN }

Prefixes(b) == { SubSeq(b, 1, k) : k \in 0..Len(b) }

CorruptedInputs(k) ==
    { Batch(k, cs, 5, d) : cs \in RisingCounts, d \in BadDecos(k) }
    \cup UNION { Prefixes(Batch(k, cs, 5, NoDeco)) : cs \in RisingCounts }

\* ------------------------------------------------------------------------
\* Inputs that decode but do not follow the schema: a batch holding, at one
\* level, the field number of the descent path (or, in a resource, of the
\* Resource) with a wire type other than length-delimited, as in
\* TestResourceMetrics_Resource_WrongWireType
\* ------------------------------------------------------------------------
MistypedField(num) ==
    { AppendVarint(AppendTag(<<>>, num, VarintType), 12345),
      AppendTag(<<>>, num, Fixed32Type) \o <<1, 2, 3, 4>>,
      AppendTag(<<>>, num, Fixed64Type) \o <<1, 2, 3, 4, 5, 6, 7, 8>> }

MistypedDecos(kind) ==
    UNION { { [msg |-> Levels(Root(kind))[l], item |-> it, front |-> fr] :
                it \in MistypedField(GenField(Levels(Root(kind))[l], 5)),
                fr \in BOOLEAN } :
            l \in 1..Len(Levels(Root(kind))) }

MistypedInputs(k) ==
    { Batch(k, cs, 5, d) : cs \in RisingCounts, d \in MistypedDecos(k) }

\* ------------------------------------------------------------------------
\* Inputs whose top-level framing is valid and whose resource is any byte
\* string over RawAlphabet (the tags of field 1 as varint and as bytes and
\* of field 2 as bytes, the lengths 0, 1 and 2, a continuation byte), or one
\* of the buffers of the error-handling tests
\* ------------------------------------------------------------------------
RawAlphabet == {0, 1, 2, 8, 10, 18, 128}

\* field 1, bytes, length 16, but only 2 bytes (TestSpan_MalformedData)
TruncatedResource == <<10, 16, 1, 2>>
\* field 1 as varint 12345 (TestResourceMetrics_Resource_WrongWireType)
WrongWireTypeResource == AppendVarint(AppendTag(<<>>, 1, VarintType), 12345)
\* only an empty field 2 (TestResourceMetrics_Resource_Missing)
MissingResource == AppendBytes(AppendTag(<<>>, 2, BytesType), <<>>)

\* a Resource, a second field 1, and a tag that is cut short
ResourceThenRest == Field(1, <<65>>) \o Field(1, <<66>>) \o <<128>>

RawBuffers(maxLen) ==
    UNION { [1..n -> RawAlphabet] : n \in 0..maxLen }
    \cup {LongPayload, TruncatedResource, WrongWireTypeResource, MissingResource,
          ResourceThenRest}

RawResourceInputs(k) == { Field(1, r) : r \in RawBuffers(MaxRawLen) }

\* ------------------------------------------------------------------------
\* Batches of one resource whose leaves (data points, log records, spans)
\* hold any bytes: every byte string over RawAlphabet, alone or next to a
\* leaf as a marshaller writes it
\* ------------------------------------------------------------------------
RECURSIVE LeafBody(_, _)
\* the content of msg on the way to leaves with the given payloads
LeafBody(msg, payloads) ==
    IF Schema(msg).child = ""
    THEN Concat([j \in 1..Len(payloads) |-> Field(GenField(msg, 5), payloads[j])])
    ELSE StdFields(msg, 0) \o Field(GenField(msg, 5), LeafBody(Schema(msg).child, payloads))

LeafBatch(k, payloads) == Field(1, LeafBody(ResourceMsg(k), payloads))

RawLeafInputs(k) ==
    { LeafBatch(k, ps) :
        ps \in UNION { {<<r>>, <<LeafPayload, r>>, <<r, LeafPayload>>} :
                         r \in RawBuffers(MaxRawLen - 2) } }

\* ------------------------------------------------------------------------
\* Spans (TestSpanFieldAccessors, TestSpanFieldAccessors_RootSpan,
\* TestSpan_WrongFieldSize, TestSpan_WrongWireType, TestSpan_MalformedData):
\* each identifier field left out, empty, of its size, or of another size;
\* a name; and the crafted buffers of the tests
\* ------------------------------------------------------------------------
Bytes1To(n) == [j \in 1..n |-> j]

\* the encodings of one identifier field
IdEncodings(num) ==
    { <<>>, Field(num, <<>>), Field(num, Bytes1To(8)), Field(num, Bytes1To(16)),
      Field(num, Bytes1To(4)) }

\* Span.name, field 5
SpanName == Field(5, <<115>>)

SpanInputs ==
    { t \o sp \o pa \o SpanName :
        t \in IdEncodings(1), sp \in IdEncodings(2), pa \in IdEncodings(4) }
    \cup { SpanName \o pa \o t : t \in IdEncodings(1), pa \in IdEncodings(4) }
    \cup { TruncatedResource, WrongWireTypeResource }
    \cup { Field(1, Bytes1To(16)) \o bad : bad \in BadFields }
    \cup { Field(2, Bytes1To(8)) \o Field(2, Bytes1To(4)) }

\* ------------------------------------------------------------------------
\* State: a caller that counts a batch, splits it and, for each resource,
\* re-wraps it, counts the wrapped and the bare resource, splits the wrapped
\* bytes again and reads the Resource
\* (TestMetricsData_SplitByResource, src/wireformat_test.go:170-205).
\* ------------------------------------------------------------------------
VARIABLES
    kind,           \* signal kind of the batch
    data,           \* the batch bytes the caller holds
    pc,             \* the caller's position
    countRet,       \* (count, err) returned by countMetricDataPoints etc.
    originalCount,  \* what DataPointCount etc. returned for the batch
    extractRet,     \* (resources, err) returned by extractResourceMetrics etc.
    splits,         \* what SplitByResource returned
    i,              \* index of the resource being handled (0-based)
    exportBytes,    \* splits[i].AsExportRequest()
    perCounts,      \* count of each wrapped resource, in order
    directRet,      \* (count, err) of countInResourceMetrics etc. on splits[i]
    resplit,        \* SplitByResource of exportBytes
    resourceRet,    \* (bytes, err) returned by extractResourceMessage
    resourceBytes,  \* what splits[i].Resource() returned
    iter,           \* a lazy resource iteration over data
    span,           \* the bytes of one Span
    ids,            \* what TraceID(), SpanID(), ParentSpanID() returned for span
    calls,          \* the calls running on data at the same time, by goroutine
    pass,           \* one call on data with the calls it has made, innermost last
    skipped,        \* what skipField returned for data and one wire type
    concat          \* the counts of data and of the two batches it is cut into

vars == <<kind, data, pc, countRet, originalCount, extractRet, splits, i,
          exportBytes, perCounts, directRet, resplit, resourceRet, resourceBytes,
          iter, span, ids, calls, pass, skipped, concat>>

\* what the split-and-count caller leaves alone
auxVars == <<iter, span, ids, calls, pass, skipped, concat>>

\* what only the split-and-count caller uses
pipeVars == <<pc, countRet, originalCount, extractRet, splits, i, exportBytes,
              perCounts, directRet, resplit, resourceRet, resourceBytes>>

NoCount == [count |-> 0, err |-> Nil]
NoSlice == [isNil |-> TRUE, elems |-> <<>>]
NoBytes == [isNil |-> TRUE, v |-> <<>>]

\* a goroutine that has not called anything yet; [lo, hi) is the range of
\* data its call is given
NoCall == [op |-> "none", st |-> "idle", lo |-> 0, hi |-> 0, pos |-> 0,
           count |-> 0, elems |-> <<>>, ret |-> NoRet]

\* nothing counted yet
NoConcat == [read |-> FALSE, cut |-> 0, whole |-> NoCount, left |-> NoCount,
             right |-> NoCount]

\* an identifier accessor not called yet
NoId == [read |-> FALSE, v |-> <<>>, err |-> Nil]

InitAll(k, inputs, spans) ==
    /\ kind = k
    /\ data \in inputs
    /\ span \in spans
    /\ ids = [traceID |-> NoId, spanID |-> NoId, parentSpanID |-> NoId]
    /\ calls = [w \in 1..NumGoroutines |-> NoCall]
    /\ pc = "start"
    /\ countRet = NoCount
    /\ originalCount = 0
    /\ extractRet = [isNil |-> TRUE, elems |-> <<>>, err |-> Nil]
    /\ splits = NoSlice
    /\ i = 0
    /\ exportBytes = <<>>
    /\ perCounts = <<>>
    /\ directRet = NoCount
    /\ resplit = NoSlice
    /\ resourceRet = [isNil |-> TRUE, v |-> <<>>, err |-> Nil]
    /\ resourceBytes = NoBytes
    /\ iter = newIteration
    /\ pass = NoPass
    /\ skipped = NoSkip
    /\ concat = NoConcat

InitWith(k, inputs) == InitAll(k, inputs, {<<>>})

Init == \E k \in Kinds : InitWith(k, WellFormedInputs(k))

\* originalCount := data.DataPointCount()
CountBatch ==
    /\ pc = "start"
    /\ countRet' = countBatch(kind, data)
    /\ originalCount' = Count(kind, data)
    /\ pc' = "counted"
    /\ UNCHANGED auxVars
    /\ UNCHANGED <<kind, data, extractRet, splits, i, exportBytes, perCounts,
                   directRet, resplit, resourceRet, resourceBytes>>

\* splits := data.SplitByResource()
Split ==
    /\ pc = "counted"
    /\ extractRet' = extractResources(kind, data)
    /\ splits' = SplitByResource(kind, data)
    /\ i' = 0
    /\ pc' = "loop"
    /\ UNCHANGED auxVars
    /\ UNCHANGED <<kind, data, countRet, originalCount, exportBytes, perCounts,
                   directRet, resplit, resourceRet, resourceBytes>>

\* exportBytes := resource.AsExportRequest()
Wrap ==
    /\ pc = "loop"
    /\ i < Len(splits.elems)
    /\ exportBytes' = AsExportRequest(kind, splits.elems[i + 1])
    /\ pc' = "wrapped"
    /\ UNCHANGED auxVars
    /\ UNCHANGED <<kind, data, countRet, originalCount, extractRet, splits, i,
                   perCounts, directRet, resplit, resourceRet, resourceBytes>>

\* count := MetricsData(exportBytes).Count(); totalFromSplits += count
CountWrapped ==
    /\ pc = "wrapped"
    /\ perCounts' = Append(perCounts, Count(kind, exportBytes))
    /\ pc' = "countedWrapped"
    /\ UNCHANGED auxVars
    /\ UNCHANGED <<kind, data, countRet, originalCount, extractRet, splits, i,
                   exportBytes, directRet, resplit, resourceRet, resourceBytes>>

\* the resource-level counter on the bare resource
CountResource ==
    /\ pc = "countedWrapped"
    /\ directRet' = countInResource(kind, splits.elems[i + 1])
    /\ pc' = "countedResource"
    /\ UNCHANGED auxVars
    /\ UNCHANGED <<kind, data, countRet, originalCount, extractRet, splits, i,
                   exportBytes, perCounts, resplit, resourceRet, resourceBytes>>

\* the wrapped bytes read back as a batch
Resplit ==
    /\ pc = "countedResource"
    /\ resplit' = SplitByResource(kind, exportBytes)
    /\ pc' = "resplit"
    /\ UNCHANGED auxVars
    /\ UNCHANGED <<kind, data, countRet, originalCount, extractRet, splits, i,
                   exportBytes, perCounts, directRet, resourceRet, resourceBytes>>

\* resource.Resource(), then the next resource
ReadResource ==
    /\ pc = "resplit"
    /\ resourceRet' = extractResource(kind, splits.elems[i + 1])
    /\ resourceBytes' = Resource(kind, splits.elems[i + 1])
    /\ i' = i + 1
    /\ pc' = "loop"
    /\ UNCHANGED auxVars
    /\ UNCHANGED <<kind, data, countRet, originalCount, extractRet, splits,
                   exportBytes, perCounts, directRet, resplit>>

\* the range loop ends
Finish ==
    /\ pc = "loop"
    /\ i >= Len(splits.elems)
    /\ pc' = "done"
    /\ UNCHANGED auxVars
    /\ UNCHANGED <<kind, data, countRet, originalCount, extractRet, splits, i,
                   exportBytes, perCounts, directRet, resplit, resourceRet,
                   resourceBytes>>

Next ==
    \/ CountBatch
    \/ Split
    \/ Wrap
    \/ CountWrapped
    \/ CountResource
    \/ Resplit
    \/ ReadResource
    \/ Finish

Spec == Init /\ [][Next]_vars

InitCorrupted == \E k \in Kinds : InitWith(k, CorruptedInputs(k))
SpecCorrupted == InitCorrupted /\ [][Next]_vars

InitRaw == \E k \in Kinds : InitWith(k, RawResourceInputs(k))
SpecRaw == InitRaw /\ [][Next]_vars

InitVariants == InitWith("metrics", MultiVariantInputs(MaxVariants))
SpecVariants == InitVariants /\ [][Next]_vars

InitRawLeaf == \E k \in Kinds : InitWith(k, RawLeafInputs(k))
SpecRawLeaf == InitRawLeaf /\ [][Next]_vars

InitMistyped == \E k \in Kinds : InitWith(k, MistypedInputs(k))
SpecMistyped == InitMistyped /\ [][Next]_vars

\* ------------------------------------------------------------------------
\* A consumer of the lazy iteration: `for resource := range resources`,
\* which may break at any resource, then getErr()
\* (TestExportMetricsServiceRequest_SplitByResource,
\* src/otlpwire_test.go:186-215)
\* ------------------------------------------------------------------------
IterInputs(k) == WellFormedInputs(k) \cup CorruptedInputs(k) \cup MistypedInputs(k)

\* the iteration is driven by one transition; when it yields, the consumer
\* either goes on or breaks out of the loop
IterNext ==
    /\ iter.state = "Active"
    /\ \E continue \in BOOLEAN :
          LET nx == forEachStep(iter, data, 1, continue)
          IN  iter' = [nx EXCEPT !.abandoned =
                          @ \/ (Len(nx.items) > Len(iter.items) /\ ~continue)]
    /\ UNCHANGED <<kind, data, span, ids, calls, pass, skipped, concat>>
    /\ UNCHANGED pipeVars

\* err := getErr(), after the loop
IterGetErr ==
    /\ iter.state = "Done" \/ iter.abandoned
    /\ iter.got = "unread"
    /\ iter' = [iter EXCEPT !.got = getErr(iter)]
    /\ UNCHANGED <<kind, data, span, ids, calls, pass, skipped, concat>>
    /\ UNCHANGED pipeVars

NextIter ==
    \/ IterNext
    \/ IterGetErr

InitIter == \E k \in Kinds : InitWith(k, IterInputs(k))
SpecIter == InitIter /\ [][NextIter]_vars

\* ------------------------------------------------------------------------
\* Goroutines that call the counting, splitting and Resource functions on
\* the same buffer at the same time (CI runs `go test -race`): data is the
\* shared backing array, each call works on a range of it
\* ------------------------------------------------------------------------
ConcurrentInputs(k) ==
    { Batch(k, cs, 5, NoDeco) : cs \in RisingCounts }
    \cup { Batch(k, <<1, 2>>, 5, d) :
              d \in { [msg |-> Root(k), item |-> it, front |-> FALSE] :
                        it \in {<<120, 1>>, <<123>>, <<122, 5, 1>>} } }

\* the range of the first field of data when it is a resource, as a caller
\* of SplitByResource holds it
firstResourceRange ==
    LET tag == ConsumeTag(data)
        bs == ConsumeBytes(From(data, tag.n))
    IN  IF tag.n > 0 /\ tag.num = 1 /\ tag.typ = BytesType /\ bs.n >= 0
        THEN [lo |-> tag.n + bs.n - Len(bs.v), hi |-> tag.n + bs.n]
        ELSE [lo |-> 0, hi |-> 0]

Ops == {"count", "split", "resource"}

\* data[lo:hi]
View(l) == SubSeq(data, l.lo + 1, l.hi)

\* go func() { ... }(): the call starts with fresh locals
Go(w) ==
    /\ calls[w].st = "idle"
    /\ \E op \in Ops :
          calls' = [[calls EXCEPT ![w] =
                        [NoCall EXCEPT !.op = op, !.st = "run",
                            !.lo = IF op = "resource" THEN firstResourceRange.lo ELSE 0,
                            !.hi = IF op = "resource" THEN firstResourceRange.hi
                                   ELSE Len(data)]]
                     EXCEPT ![cursorSlot(w)].pos = 0]
    /\ UNCHANGED <<kind, data, iter, span, ids, pass, skipped, concat>>
    /\ UNCHANGED pipeVars

\* one iteration of the loop of the call of goroutine w
Step(w) ==
    /\ calls[w].st = "run"
    /\ LET pos == calls[cursorSlot(w)].pos
           l == calls[w]
           nx == CASE l.op = "count" -> countStep(l, pos, View(l), Root(kind))
                   [] l.op = "split" -> extractStep(l, pos, View(l), kind)
                   [] l.op = "resource" ->
                        extractResourceStep(l, pos, View(l), ResourceMsg(kind))
       IN  calls' = [[calls EXCEPT ![w] = [nx EXCEPT !.pos = l.pos]]
                      EXCEPT ![cursorSlot(w)].pos = IF nx.st = "done" THEN pos ELSE nx.pos]
    /\ UNCHANGED <<kind, data, iter, span, ids, pass, skipped, concat>>
    /\ UNCHANGED pipeVars

NextConcurrent == \E w \in 1..NumGoroutines : Go(w) \/ Step(w)

InitConcurrent == \E k \in Kinds : InitWith(k, ConcurrentInputs(k))
SpecConcurrent == InitConcurrent /\ [][NextConcurrent]_vars

\* ------------------------------------------------------------------------
\* A caller reading the identifiers of one span
\* (TestSpanFieldAccessors_RootSpan, src/otlpwire_test.go:743-753)
\* ------------------------------------------------------------------------
\* traceID, err := s.TraceID()
ReadTraceID ==
    /\ ~ids.traceID.read
    /\ ids' = [ids EXCEPT !.traceID =
                  [read |-> TRUE, v |-> SpanTraceID(span).v, err |-> SpanTraceID(span).err]]
    /\ UNCHANGED <<kind, data, iter, span, calls, pass, skipped, concat>>
    /\ UNCHANGED pipeVars

\* spanID, err := s.SpanID()
ReadSpanID ==
    /\ ~ids.spanID.read
    /\ ids' = [ids EXCEPT !.spanID =
                  [read |-> TRUE, v |-> SpanSpanID(span).v, err |-> SpanSpanID(span).err]]
    /\ UNCHANGED <<kind, data, iter, span, calls, pass, skipped, concat>>
    /\ UNCHANGED pipeVars

\* parentID, err := s.ParentSpanID()
ReadParentSpanID ==
    /\ ~ids.parentSpanID.read
    /\ ids' = [ids EXCEPT !.parentSpanID =
                  [read |-> TRUE, v |-> SpanParentSpanID(span).v,
                   err |-> SpanParentSpanID(span).err]]
    /\ UNCHANGED <<kind, data, iter, span, calls, pass, skipped, concat>>
    /\ UNCHANGED pipeVars

NextSpan ==
    \/ ReadTraceID
    \/ ReadSpanID
    \/ ReadParentSpanID

InitSpan == InitAll("traces", {<<>>}, SpanInputs)
SpecSpan == InitSpan /\ [][NextSpan]_vars

\* ------------------------------------------------------------------------
\* A caller that makes one call on a batch, followed iteration by
\* iteration through the calls it makes
\* ------------------------------------------------------------------------
\* a batch cut short inside or after a field of each skipped wire type
TruncatedSkipInputs(k) ==
    UNION { Prefixes(Batch(k, <<1>>, 5, [msg |-> Root(k), item |-> it, front |-> FALSE])) :
              it \in UnknownFields }

PassInputs(k) == IterInputs(k) \cup TruncatedSkipInputs(k)

\* data.DataPointCount(), data.SplitByResource() or, on the first resource,
\* Resource(): the call starts with pos := 0
PassStart ==
    /\ pass.st = "idle"
    /\ \E op \in Ops :
          pass' = [st |-> "run", ret |-> NoRet,
                   frames |-> << IF op = "resource"
                                 THEN NewFrame(op, ResourceMsg(kind),
                                               firstResourceRange.lo, firstResourceRange.hi)
                                 ELSE NewFrame(op, Root(kind), 0, Len(data)) >>]
    /\ UNCHANGED <<kind, data, iter, span, ids, calls, skipped, concat>>
    /\ UNCHANGED pipeVars

\* the innermost call runs one iteration of its loop, or returns
PassStep ==
    /\ pass.st = "run"
    /\ pass' = passStep(pass, data, kind)
    /\ UNCHANGED <<kind, data, iter, span, ids, calls, skipped, concat>>
    /\ UNCHANGED pipeVars

NextPass ==
    \/ PassStart
    \/ PassStep

InitPass == \E k \in Kinds : InitWith(k, PassInputs(k))
SpecPass == InitPass /\ [][NextPass]_vars

\* the batches with rising counts, a batch of one leaf with one field that
\* cannot be decoded or skipped at one level, and the same batch cut short
\* at any byte
FairInputs(k) ==
    { Batch(k, cs, 5, NoDeco) : cs \in RisingCounts }
    \cup { Batch(k, <<1>>, 5, d) : d \in BadDecos(k) }
    \cup Prefixes(Batch(k, <<1>>, 5, NoDeco))

InitPassFair == \E k \in Kinds : InitWith(k, FairInputs(k))

\* a call that has started keeps running until it returns
SpecPassFair == InitPassFair /\ [][NextPass]_vars /\ WF_vars(PassStep)

\* ------------------------------------------------------------------------
\* skipField called on any buffer with any of the eight wire types a tag
\* can carry (tag & 7)
\* ------------------------------------------------------------------------
WireTypes == 0..7

\* ten continuation bytes and more: a varint that does not end in time
OverlongVarint == Repeat(<<128>>, 10) \o <<1>>

\* the largest varint: nine bytes 0xff and a final 0x01
MaxVarint == Repeat(<<255>>, 9) \o <<1>>

SkipInputs(maxLen) ==
    RawBuffers(maxLen)
    \cup { Bytes1To(n) : n \in 3..9 }
    \cup { OverlongVarint, MaxVarint, MaxVarint \o <<7>>, <<128, 128, 128, 128, 0, 7>>,
           <<128, 1>> \o LongPayload, <<129, 1>> \o LongPayload }

\* n := skipField(data, wireType)
SkipField ==
    /\ ~skipped.read
    /\ \E wireType \in WireTypes :
          skipped' = [read |-> TRUE, typ |-> wireType, n |-> skipField(data, wireType)]
    /\ UNCHANGED <<kind, data, iter, span, ids, calls, pass, concat>>
    /\ UNCHANGED pipeVars

NextSkip == SkipField

InitSkip == InitWith("metrics", SkipInputs(MaxRawLen))
SpecSkip == InitSkip /\ [][NextSkip]_vars

\* ------------------------------------------------------------------------
\* A caller that holds two batches of the same kind joined in one buffer,
\* as two export requests written one after the other, and counts the
\* whole and the two batches
\* ------------------------------------------------------------------------
\* the batches that are joined: no resource, one resource of each count,
\* resources of rising counts, and a batch with an unknown field before or
\* after its resource
ConcatParts(k) ==
    { Batch(k, cs, 5, NoDeco) : cs \in RisingCounts }
    \cup { Batch(k, <<n>>, 5, NoDeco) : n \in 0..MaxPoints }
    \cup { Batch(k, <<1>>, 5, [msg |-> Root(k), item |-> it, front |-> fr]) :
              it \in UnknownFields, fr \in BOOLEAN }

ConcatInputs(k) == { a \o b : a, b \in ConcatParts(k) }

RECURSIVE FieldEnds(_, _)
\* the positions of b at which a top-level field ends, from pos on
FieldEnds(b, pos) ==
    IF pos >= Len(b) THEN {pos}
    ELSE LET tag == ConsumeTag(From(b, pos))
             n == skipField(From(b, pos + tag.n), tag.typ)
         IN  IF tag.n < 0 \/ n < 0 THEN {pos}
             ELSE {pos} \cup FieldEnds(b, pos + tag.n + n)

\* a := data[:cut]; b := data[cut:]; the three counts
CountParts ==
    /\ ~concat.read
    /\ \E cut \in FieldEnds(data, 0) :
          concat' = [read |-> TRUE, cut |-> cut,
                     whole |-> countBatch(kind, data),
                     left |-> countBatch(kind, SubSeq(data, 1, cut)),
                     right |-> countBatch(kind, From(data, cut))]
    /\ UNCHANGED <<kind, data, iter, span, ids, calls, pass, skipped>>
    /\ UNCHANGED pipeVars

NextConcat == CountParts

InitConcat == \E k \in Kinds : InitWith(k, ConcatInputs(k))
SpecConcat == InitConcat /\ [][NextConcat]_vars

\* ------------------------------------------------------------------------
\* A general-purpose decoder of one message level, as the fixtures'
\* unmarshaller reads it (src/wireformat_test.go:193-196): every field with
\* its number, wire type and, when length-delimited, payload
\* ------------------------------------------------------------------------
RECURSIVE Decode(_)
Decode(b) ==
    IF b = <<>> THEN [ok |-> TRUE, fields |-> <<>>]
    ELSE
    LET tag == ConsumeTag(b)
        rest == From(b, tag.n)
        bs == ConsumeBytes(rest)
        n == IF tag.n < 0 THEN -1
             ELSE IF tag.typ = BytesType THEN bs.n
             ELSE IF tag.typ = VarintType THEN ConsumeVarint(rest).n
             ELSE IF tag.typ = Fixed64Type THEN ConsumeFixed64(rest)
             ELSE IF tag.typ = Fixed32Type THEN ConsumeFixed32(rest)
             ELSE -1
    IN  IF n < 0 THEN [ok |-> FALSE, fields |-> <<>>]
        ELSE LET tl == Decode(From(rest, n))
                 fld == [num |-> tag.num, typ |-> tag.typ,
                         v |-> IF tag.typ = BytesType THEN bs.v ELSE <<>>]
             IN  [ok |-> tl.ok, fields |-> IF tl.ok THEN <<fld>> \o tl.fields ELSE <<>>]

RECURSIVE PayloadsOf(_, _)
PayloadsOf(fields, nums) ==
    IF fields = <<>> THEN <<>>
    ELSE (IF fields[1].num \in nums /\ fields[1].typ = BytesType
          THEN <<fields[1].v>> ELSE <<>>) \o PayloadsOf(Tail(fields), nums)

\* the payloads of the length-delimited fields of b numbered in nums, in
\* encoding order
Entries(b, nums) == PayloadsOf(Decode(b).fields, nums)

RECURSIVE SumSeq(_)
SumSeq(q) == IF q = <<>> THEN 0 ELSE q[1] + SumSeq(Tail(q))

RECURSIVE LeafEntries(_, _)
\* the number of entries reached from b along path, a sequence of sets of
\* field numbers, one per level
LeafEntries(b, path) ==
    LET es == Entries(b, path[1])
    IN  IF Len(path) = 1 THEN Len(es)
        ELSE SumSeq([k \in 1..Len(es) |-> LeafEntries(es[k], Tail(path))])

\* batch 1 -> ResourceMetrics 2 -> ScopeMetrics 2 -> Metric 5/7/9/10/11 -> 1
MetricsPath == <<{1}, {2}, {2}, {5, 7, 9, 10, 11}, {1}>>
\* batch 1 -> resource 2 -> scope 2
LogsPath == <<{1}, {2}, {2}>>

\* the resource the caller's loop is at
Current == splits.elems[i + 1]

\* ------------------------------------------------------------------------
\* C1: for a well-formed batch, the batch-level count equals the sum of the
\* counts of its resources, each re-wrapped as a standalone export request.
\* ------------------------------------------------------------------------
C1_BatchCountIsSumOfResourceCounts ==
    pc = "done" => /\ countRet.err = Nil
                   /\ Len(perCounts) = Len(splits.elems)
                   /\ originalCount = SumSeq(perCounts)

C1_Witness ==
    /\ pc = "done"
    /\ Len(perCounts) = 2
    /\ perCounts[1] > 0
    /\ perCounts[2] > perCounts[1]
    /\ originalCount = perCounts[1] + perCounts[2]

\* ------------------------------------------------------------------------
\* C2: for a well-formed resource, the resource-level counter returns the
\* count that the batch-level counter returns for the wrapped resource.
\* ------------------------------------------------------------------------
C2_DirectCountEqualsWrappedCount ==
    pc = "countedResource" =>
        /\ directRet.err = Nil
        /\ countBatch(kind, exportBytes).err = Nil
        /\ directRet.count = perCounts[i + 1]

C2_Witness ==
    /\ pc = "countedResource"
    /\ directRet.count = 2
    /\ perCounts[i + 1] = 2

\* ------------------------------------------------------------------------
\* C3: the wrapped bytes are exactly one length-delimited field 1 holding
\* the payload, so splitting them returns exactly the payload.
\* ------------------------------------------------------------------------
C3_WrapIsOneField ==
    pc = "resplit" =>
        /\ Decode(exportBytes) =
              [ok |-> TRUE, fields |-> <<[num |-> 1, typ |-> BytesType, v |-> Current]>>]
        /\ resplit = [isNil |-> FALSE, elems |-> <<Current>>]

\* a payload with a two-byte length prefix that is not itself a message
C3_Witness ==
    /\ pc = "resplit"
    /\ Len(Current) >= 128
    /\ ~Decode(Current).ok
    /\ Len(exportBytes) = Len(Current) + 3
    /\ resplit.elems = <<Current>>

\* ------------------------------------------------------------------------
\* C4: DataPointCount is the number of length-delimited field-1 entries in
\* the variant containers (fields 5, 7, 9, 10, 11) of every Metric (field 2)
\* of every ScopeMetrics (field 2) of every ResourceMetrics (field 1);
\* nothing else at the Metric level counts.
\* ------------------------------------------------------------------------
C4_DataPointCountIsVariantEntries ==
    (pc # "start" /\ kind = "metrics") =>
        /\ countRet.err = Nil
        /\ originalCount = LeafEntries(data, MetricsPath)

\* two named metrics, each a Summary (field 11), with three data points
C4_Witness ==
    /\ pc = "counted"
    /\ kind = "metrics"
    /\ originalCount = 3
    /\ Len(Entries(data, {1})) = 2
    /\ LeafEntries(data, <<{1}, {2}, {2}, {11}, {1}>>) = 3
    /\ LeafEntries(data, <<{1}, {2}, {2}, {1}>>) = 2

\* ------------------------------------------------------------------------
\* C5: LogRecordCount and SpanCount are the number of length-delimited
\* field-2 entries of the field-2 scopes of the field-1 resources.
\* ------------------------------------------------------------------------
C5_LogAndSpanCountIsScopeEntries ==
    (pc # "start" /\ kind \in {"logs", "traces"}) =>
        /\ countRet.err = Nil
        /\ originalCount = LeafEntries(data, LogsPath)

C5_Witness ==
    /\ pc = "counted"
    /\ kind = "traces"
    /\ originalCount = 3
    /\ Len(Entries(data, {1})) = 2

C5_WitnessLogs ==
    /\ pc = "counted"
    /\ kind = "logs"
    /\ originalCount = 3

\* ------------------------------------------------------------------------
\* C6: splitting yields the payloads of the length-delimited field-1
\* entries of the batch, in encoding order and as many; counts 5 and 15
\* give two items counted [5, 15].
\* ------------------------------------------------------------------------
C6_SplitsAreField1EntriesInOrder ==
    pc \notin {"start", "counted"} =>
        /\ extractRet.err = Nil
        /\ ~splits.isNil
        /\ splits.elems = Entries(data, {1})
        /\ (data = Batch(kind, ScenarioCounts, 5, NoDeco) /\ pc = "done"
               => perCounts = ScenarioCounts)

C6_Witness ==
    /\ pc = "done"
    /\ Len(splits.elems) = 2
    /\ perCounts = <<5, 15>>
    /\ originalCount = 20

\* ------------------------------------------------------------------------
\* C7: the first decode or skip error at any level aborts the counting
\* pass: the counter returns the error with count 0, never the count
\* gathered before the error.
\* ------------------------------------------------------------------------
RECURSIVE WalkOk(_, _)
\* every message on the descent path decodes
WalkOk(b, path) ==
    /\ Decode(b).ok
    /\ Len(path) > 1 =>
          \A k \in 1..Len(Entries(b, path[1])) : WalkOk(Entries(b, path[1])[k], Tail(path))

Path(k) == IF k = "metrics" THEN MetricsPath ELSE LogsPath

C7_ErrorAbortsWithZeroCount ==
    /\ pc # "start" =>
          /\ (countRet.err = Nil) <=> WalkOk(data, Path(kind))
          /\ countRet.err # Nil => (countRet.count = 0 /\ originalCount = 0)
    /\ (pc = "countedResource" /\ directRet.err # Nil) => directRet.count = 0

\* the error comes after a part of the batch that counts to more than 0
C7_Witness ==
    /\ pc = "counted"
    /\ countRet.err # Nil
    /\ countRet.count = 0
    /\ \E k \in 1..Len(data) :
          /\ countBatch(kind, SubSeq(data, 1, k)).err = Nil
          /\ countBatch(kind, SubSeq(data, 1, k)).count > 0

\* ------------------------------------------------------------------------
\* C8: for the ResourceMetrics bytes 0A 10 01 02 (a 16-byte field 1
\* announced, 2 bytes present) the caller is given an error and never an
\* empty Resource or a zero count instead.
\* ------------------------------------------------------------------------
\* the resource the caller's loop has just left
Handled == splits.elems[i]

C8_TruncatedResourceReportsError ==
    (kind = "metrics" /\ pc = "loop" /\ i > 0 /\ Handled = TruncatedResource) =>
        /\ ~(resourceBytes.isNil \/ resourceBytes.v = <<>>)
        /\ perCounts[i] # 0

\* ------------------------------------------------------------------------
\* C9: extracting the Resource of a resource message without a field 1
\* returns a "not found" error.
\* ------------------------------------------------------------------------
HasNoField1(r) ==
    /\ Decode(r).ok
    /\ \A k \in 1..Len(Decode(r).fields) : Decode(r).fields[k].num # 1

C9_MissingResourceIsError ==
    (pc = "loop" /\ i > 0 /\ HasNoField1(Handled)) => resourceRet.err # Nil

\* ------------------------------------------------------------------------
\* C10: extracting the Resource of a resource message whose field 1 is not
\* length-delimited returns a "wrong wire type" error.
\* ------------------------------------------------------------------------
FirstField1NotBytes(r) ==
    /\ Decode(r).ok
    /\ \E k \in 1..Len(Decode(r).fields) :
          /\ Decode(r).fields[k].num = 1
          /\ Decode(r).fields[k].typ # BytesType
          /\ \A j \in 1..(k - 1) : Decode(r).fields[j].num # 1

C10_WrongWireTypeIsError ==
    (pc = "loop" /\ i > 0 /\ FirstField1NotBytes(Handled)) => resourceRet.err # Nil

\* ------------------------------------------------------------------------
\* C11: a counting pass that meets a field whose number is a step of the
\* descent path but whose wire type is not length-delimited fails with an
\* error; the field is not skipped like an unknown one.
\* ------------------------------------------------------------------------
RECURSIVE WrongTypeOnPath(_, _)
\* a message on the descent path holds a field of an expected number with a
\* wire type other than length-delimited
WrongTypeOnPath(b, path) ==
    /\ Decode(b).ok
    /\ \/ \E k \in 1..Len(Decode(b).fields) :
             /\ Decode(b).fields[k].num \in path[1]
             /\ Decode(b).fields[k].typ # BytesType
       \/ /\ Len(path) > 1
          /\ \E k \in 1..Len(Entries(b, path[1])) :
                WrongTypeOnPath(Entries(b, path[1])[k], Tail(path))

C11_WrongWireTypeAbortsCount ==
    (pc # "start" /\ WrongTypeOnPath(data, Path(kind))) => countRet.err # Nil

\* ------------------------------------------------------------------------
\* C12: in a lazy resource iteration, once an error is recorded the
\* iteration is Done, no element is produced after it, and the slot keeps
\* that first error: the accessor returns exactly it.
\* ------------------------------------------------------------------------
C12_ErrorEndsIteration ==
    [][ /\ iter'.err # Nil => iter'.state = "Done"
        /\ iter.err # Nil => /\ iter'.items = iter.items
                             /\ iter'.err = iter.err
        /\ iter'.got # "unread" => iter'.got = iter'.err ]_vars

\* an error after two resources were yielded, read through the accessor
C12_Witness ==
    /\ iter.state = "Done"
    /\ iter.err = MalformedTag
    /\ Len(iter.items) = 2
    /\ iter.got = MalformedTag

\* ------------------------------------------------------------------------
\* C13: when the consumer leaves the loop after K resources and the bytes
\* after them are corrupted, exactly those K resources were produced, the
\* cursor stays at the end of the K-th resource, and the accessor reports
\* no error.
\* ------------------------------------------------------------------------
\* the bytes before the cursor
Walked(it) == SubSeq(data, 1, it.pos)

RECURSIVE FieldsBefore(_)
\* the fields of b up to the first that does not decode
FieldsBefore(b) ==
    IF b = <<>> THEN <<>>
    ELSE
    LET tag == ConsumeTag(b)
        rest == From(b, tag.n)
        bs == ConsumeBytes(rest)
        n == IF tag.n < 0 THEN -1
             ELSE IF tag.typ = BytesType THEN bs.n
             ELSE IF tag.typ = VarintType THEN ConsumeVarint(rest).n
             ELSE IF tag.typ = Fixed64Type THEN ConsumeFixed64(rest)
             ELSE IF tag.typ = Fixed32Type THEN ConsumeFixed32(rest)
             ELSE -1
    IN  IF n < 0 THEN <<>>
        ELSE <<[num |-> tag.num, typ |-> tag.typ,
                v |-> IF tag.typ = BytesType THEN bs.v ELSE <<>>]>>
             \o FieldsBefore(From(rest, n))

\* the positions of the fields numbered num
Occurrences(fields, num) == { k \in 1..Len(fields) : fields[k].num = num }

\* the first field numbered num
FirstOccurrence(fields, num) ==
    fields[CHOOSE k \in Occurrences(fields, num) :
              \A j \in Occurrences(fields, num) : k <= j]

IdAsEncoded(r, num, size) ==
    LET fs == FieldsBefore(span)
        has == Occurrences(fs, num) # {}
        first == FirstOccurrence(fs, num)
    IN  r.read =>
          /\ r.err = Nil =>
                IF ~has THEN r.v = Zeros(size)
                ELSE /\ first.typ = BytesType
                     /\ IF first.v = <<>> THEN r.v = Zeros(size)
                        ELSE r.v = first.v /\ Len(first.v) = size
          /\ (has /\ first.typ = BytesType /\ Len(first.v) \notin {0, size}) =>
                /\ r.err = SizeMismatch
                /\ r.v = Zeros(size)

C14_IdentifiersAbsentExactOrError ==
    /\ IdAsEncoded(ids.traceID, 1, 16)
    /\ IdAsEncoded(ids.spanID, 2, 8)
    /\ IdAsEncoded(ids.parentSpanID, 4, 8)

\* a root span (no field 4) with an 8-byte trace_id and an 8-byte span_id
C14_Witness ==
    /\ ids.traceID.read /\ ids.spanID.read /\ ids.parentSpanID.read
    /\ Occurrences(FieldsBefore(span), 4) = {}
    /\ ids.parentSpanID = [read |-> TRUE, v |-> Zeros(8), err |-> Nil]
    /\ Occurrences(FieldsBefore(span), 1) # {}
    /\ Len(FirstOccurrence(FieldsBefore(span), 1).v) = 8
    /\ ids.traceID.err = SizeMismatch
    /\ ids.spanID = [read |-> TRUE, v |-> Bytes1To(8), err |-> Nil]

\* ------------------------------------------------------------------------
\* C15: for a zero-length batch of any signal kind the count is 0 without
\* error and splitting returns an empty, non-nil list without error.
\* ------------------------------------------------------------------------
C15_EmptyBatchCountsZero ==
    data = <<>> =>
        /\ pc # "start" => /\ countRet = [count |-> 0, err |-> Nil]
                           /\ originalCount = 0
        /\ pc \notin {"start", "counted"} =>
               /\ extractRet.err = Nil
               /\ extractRet.elems = <<>>
               /\ splits = [isNil |-> FALSE, elems |-> <<>>]
        /\ pc = "done" => perCounts = <<>>

C15_Witness ==
    /\ data = <<>>
    /\ pc = "done"
    /\ originalCount = 0
    /\ splits.elems = <<>>
    /\ ~splits.isNil

\* ------------------------------------------------------------------------
\* C16: calls that run at the same time on one buffer never change the
\* buffer, and under every interleaving each call returns what it returns
\* when it runs alone.
\* ------------------------------------------------------------------------
\* the return value of the call of l run on its own
Alone(l) ==
    CASE l.op = "count" ->
            [NoRet EXCEPT !.count = countBatch(kind, View(l)).count, !.isNil = FALSE,
                          !.err = countBatch(kind, View(l)).err]
      [] l.op = "split" ->
            [NoRet EXCEPT !.isNil = extractResources(kind, View(l)).isNil,
                          !.elems = extractResources(kind, View(l)).elems,
                          !.err = extractResources(kind, View(l)).err]
      [] l.op = "resource" ->
            [NoRet EXCEPT !.isNil = extractResource(kind, View(l)).isNil,
                          !.v = extractResource(kind, View(l)).v,
                          !.err = extractResource(kind, View(l)).err]

C16_ConcurrentCallsAreIndependent ==
    [][ /\ data' = data
        /\ \A w \in 1..NumGoroutines :
              calls'[w].st = "done" => calls'[w].ret = Alone(calls[w]) ]_vars

\* a count has returned 3 while a split of the same buffer is half-way
C16_Witness ==
    \E w, x \in 1..NumGoroutines :
        /\ calls[w].op = "count" /\ calls[w].st = "done" /\ calls[w].ret.count = 3
        /\ calls[x].op = "split" /\ calls[x].st = "run"
        /\ Len(calls[x].elems) = 1

\* ------------------------------------------------------------------------
\* C17: every error that ends a counting, splitting or Resource pass names
\* a message kind of the walk: the message being walked, or the entry of
\* it being read.
\* ------------------------------------------------------------------------
\* the error texts of signal kind k that name a message
NamingErrors(k) ==
    UNION { {Schema(Levels(Root(k))[l]).tagErr, Schema(Levels(Root(k))[l]).bytesErr} :
              l \in 1..Len(Levels(Root(k))) }
    \cup { strcat("malformed protobuf tag in ", ResourceMsg(k)),
           strcat("failed to skip field in ", ResourceMsg(k)),
           "invalid bytes in Resource" }

NamesMessageKind(err) == err = Nil \/ err \in NamingErrors(kind)

C17_ErrorsNameTheMessage ==
    /\ NamesMessageKind(countRet.err)
    /\ NamesMessageKind(extractRet.err)
    /\ NamesMessageKind(directRet.err)
    /\ NamesMessageKind(resourceRet.err)

\* ------------------------------------------------------------------------
\* C18: splitting a batch that holds a field 1 with a wire type other than
\* length-delimited fails: the extraction returns an error and
\* SplitByResource does not return a list.
\* ------------------------------------------------------------------------
C18_MistypedResourceFailsSplit ==
    (pc \notin {"start", "counted"} /\ WrongTypeOnPath(data, <<{1}>>)) =>
        /\ extractRet.err # Nil
        /\ splits.isNil

\* ------------------------------------------------------------------------
\* C19: the Resource of a resource message is the payload of its first
\* length-delimited field 1; what follows that field is not looked at, so
\* a later field 1 or undecodable bytes after it change nothing and cause
\* no error.
\* ------------------------------------------------------------------------
\* the positions of the length-delimited fields 1 among fields
Resources(fields) ==
    { k \in Occurrences(fields, 1) : fields[k].typ = BytesType }

C19_ResourceIsFirstField1 ==
    (pc = "loop" /\ i > 0 /\ Resources(FieldsBefore(Handled)) # {}) =>
        LET fs == FieldsBefore(Handled)
            first == CHOOSE k \in Resources(fs) : \A j \in Resources(fs) : k <= j
        IN  /\ resourceRet = [isNil |-> FALSE, v |-> fs[first].v, err |-> Nil]
            /\ resourceBytes = [isNil |-> FALSE, v |-> fs[first].v]

\* two fields 1 with different payloads, then bytes that do not decode
C19_Witness ==
    /\ pc = "loop"
    /\ i > 0
    /\ ~Decode(Handled).ok
    /\ Cardinality(Resources(FieldsBefore(Handled))) = 2
    /\ FieldsBefore(Handled)[2].v # FieldsBefore(Handled)[1].v
    /\ resourceRet = [isNil |-> FALSE, v |-> FieldsBefore(Handled)[1].v, err |-> Nil]

\* ------------------------------------------------------------------------
\* C20: fields that are not a step of the descent path are skipped whole at
\* every depth: a batch and the same batch with all such fields removed, at
\* every level, have the same count and, resource for resource, the same
\* sequence of resources.
\* ------------------------------------------------------------------------
RECURSIVE StripFields(_, _, _)
RECURSIVE Strip(_, _)
\* b re-encoded from the fields of the descent path only
Strip(b, path) == StripFields(Decode(b).fields, 1, path)

StripFields(fields, k, path) ==
    IF k > Len(fields) THEN <<>>
    ELSE (IF fields[k].num \in path[1] /\ fields[k].typ = BytesType
          THEN Field(fields[k].num,
                     IF Len(path) = 1 THEN fields[k].v
                     ELSE Strip(fields[k].v, Tail(path)))
          ELSE <<>>)
         \o StripFields(fields, k + 1, path)

C20_UnknownFieldsChangeNothing ==
    LET bare == Strip(data, Path(kind))
    IN  /\ pc # "start" => countRet = countBatch(kind, bare)
        /\ pc \notin {"start", "counted"} =>
              /\ extractRet.err = Nil
              /\ [k \in 1..Len(splits.elems) |-> Strip(splits.elems[k], Tail(Path(kind)))]
                    = extractResources(kind, bare).elems

\* a fixed64 field 15 in front of the content of each Metric of two resources
C20_Witness ==
    /\ pc = "done"
    /\ kind = "metrics"
    /\ data = Batch("metrics", <<1, 2>>, 5,
                    [msg |-> "Metric", item |-> <<121, 1, 2, 3, 4, 5, 6, 7, 8>>,
                     front |-> TRUE])
    /\ originalCount = 3
    /\ countBatch(kind, Strip(data, MetricsPath)).count = 3
    /\ Len(Strip(data, MetricsPath)) < Len(data) - 18
    /\ Len(splits.elems) = 2

\* ------------------------------------------------------------------------
\* C21: when the loop of a call ends because `pos < len(data)` is false,
\* the cursor is exactly len(data), never beyond it, and the tags and
\* fields walked are the whole of data: data decodes as a sequence of
\* complete fields with nothing left over.
\* ------------------------------------------------------------------------
Top == pass.frames[Len(pass.frames)]

\* data of the frame f
FrameView(f) == SubSeq(data, f.lo + 1, f.hi)

\* the loop condition of the innermost call is false
LoopEnded == pass.st = "run" /\ Top.pos >= Len(FrameView(Top))

C21_CursorEndsAtLength ==
    LoopEnded =>
        /\ Top.pos = Len(FrameView(Top))
        /\ Decode(FrameView(Top)).ok

\* countDataPoints ends its loop after two data points, four calls deep
C21_Witness ==
    /\ LoopEnded
    /\ Len(pass.frames) = 5
    /\ Top.msg = "metric data points"
    /\ Top.count = 2
    /\ Top.pos = Len(FrameView(Top))
    /\ Top.pos > 0

\* ------------------------------------------------------------------------
\* C22: skipField returns the length of exactly one field of the given
\* wire type at the start of data: one varint, 8 bytes for fixed64, the
\* length prefix plus the payload for length-delimited, 4 bytes for
\* fixed32; it returns a negative number for every other wire type and
\* when data does not hold the whole field.
\* ------------------------------------------------------------------------
\* the number of bytes of the varint b starts with, up to and including
\* the first byte below 128; 0 when no varint of at most 64 bits ends in b
VarintSpan(b) ==
    LET ends == { j \in 1..Min(Len(b), 10) : b[j] < 128 }
        first == CHOOSE j \in ends : \A m \in ends : j <= m
    IN  IF ends = {} THEN 0
        ELSE IF first = 10 /\ b[10] > 1 THEN 0
        ELSE first

\* the value of the varint of n bytes b starts with; Pow28 stands for every
\* value of 2^28 and more, which no buffer here can hold as a payload
PrefixValue(b, n) ==
    IF \E j \in 5..n : b[j] % 128 # 0 THEN Pow28
    ELSE SumSeq([j \in 1..Min(n, 4) |-> (b[j] % 128) * 128 ^ (j - 1)])

\* the length of the field of type wireType that b starts with, -1 when b
\* holds no complete field of that type
FieldSpan(b, wireType) ==
    CASE wireType = VarintType -> IF VarintSpan(b) = 0 THEN -1 ELSE VarintSpan(b)
      [] wireType = Fixed64Type -> IF Len(b) >= 8 THEN 8 ELSE -1
      [] wireType = BytesType ->
            IF VarintSpan(b) = 0 THEN -1
            ELSE IF VarintSpan(b) + PrefixValue(b, VarintSpan(b)) > Len(b) THEN -1
            ELSE VarintSpan(b) + PrefixValue(b, VarintSpan(b))
      [] wireType = Fixed32Type -> IF Len(b) >= 4 THEN 4 ELSE -1
      [] OTHER -> -1

C22_SkipFieldConsumesOneField ==
    skipped.read =>
        IF FieldSpan(data, skipped.typ) < 0 THEN skipped.n < 0
        ELSE skipped.n = FieldSpan(data, skipped.typ)

\* a length-delimited field with a two-byte prefix is skipped whole
C22_Witness ==
    /\ skipped.read
    /\ skipped.typ = BytesType
    /\ data = <<128, 1>> \o LongPayload
    /\ skipped.n = 130

\* ------------------------------------------------------------------------
\* C23: every pass terminates, on well-formed and on malformed input.  Each
\* iteration of a loop either ends the pass with an error or moves the
\* cursor of its call forward by at least one byte; a call that is made
\* starts at 0 after its caller's cursor has moved forward, a call that
\* returns leaves its caller's cursor where it was, and no cursor ever
\* moves backward.  A pass that has started therefore reaches its return.
\* ------------------------------------------------------------------------
Depth(p) == Len(p.frames)

\* the cursors of the calls that are running before and after the step
CursorsKept(d) == \A j \in 1..d : pass'.frames[j].pos = pass.frames[j].pos

IterationAdvances ==
    pass.st = "run" /\ pass' # pass =>
        \/ pass'.st = "done"
        \/ /\ Depth(pass') = Depth(pass) - 1
           /\ LoopEnded
           /\ CursorsKept(Depth(pass'))
        \/ /\ Depth(pass') = Depth(pass)
           /\ CursorsKept(Depth(pass) - 1)
           /\ pass'.frames[Depth(pass)].pos >= Top.pos + 1
        \/ /\ Depth(pass') = Depth(pass) + 1
           /\ CursorsKept(Depth(pass) - 1)
           /\ pass'.frames[Depth(pass)].pos >= Top.pos + 1
           /\ pass'.frames[Depth(pass')].pos = 0

C23_EveryPassTerminates ==
    /\ [][IterationAdvances]_vars
    /\ (pass.st = "run" ~> pass.st = "done")

\* a count of a batch that is cut short has returned its error
C23_Witness ==
    /\ pass.st = "done"
    /\ pass.ret.err # Nil
    /\ ~Decode(data).ok
    /\ Len(data) > 20

\* ------------------------------------------------------------------------
\* C24: during a pass over any input, well-formed or not, every cursor
\* stays within 0..len(data) of its call, and the bytes handed to a deeper
\* call lie inside the caller's data, in the field the caller has just
\* consumed: nothing is read or re-sliced past the end of a view.
\* ------------------------------------------------------------------------
InView(f) ==
    /\ 0 <= f.lo /\ f.lo <= f.hi /\ f.hi <= Len(data)
    /\ 0 <= f.fieldPos /\ f.fieldPos <= f.pos
    /\ f.pos <= f.hi - f.lo

\* the data of the call g is the end of the field its caller f is at
InsideCaller(f, g) ==
    /\ f.lo + f.fieldPos <= g.lo
    /\ g.hi = f.lo + f.pos

C24_CursorAndSubMessagesInBounds ==
    /\ \A j \in 1..Depth(pass) : InView(pass.frames[j])
    /\ \A j \in 2..Depth(pass) : InsideCaller(pass.frames[j - 1], pass.frames[j])

\* the innermost counter of a batch that does not decode at that level is
\* at the end of its data
C24_Witness ==
    /\ pass.st = "run"
    /\ Depth(pass) = Len(Path(kind))
    /\ ~WalkOk(data, Path(kind))
    /\ Top.pos > 0
    /\ Top.lo + Top.pos = Top.hi

C26_SplitIsAllOrNothing ==
    (pc \notin {"start", "counted"} /\ ~Decode(data).ok) =>
        /\ extractRet.err # Nil
        /\ splits.isNil
        /\ splits.elems = <<>>

\* two well-formed resources come before the bytes that do not decode
C26_Witness ==
    /\ pc = "done"
    /\ ~Decode(data).ok
    /\ splits.isNil
    /\ \E k \in 1..Len(data) :
          /\ Decode(SubSeq(data, 1, k)).ok
          /\ Len(Entries(SubSeq(data, 1, k), {1})) = 2

\* ------------------------------------------------------------------------
\* C27: splitting looks at the framing of the batch only.  A batch whose
\* fields decode is split into its resources whatever their bytes are, so a
\* resource that SplitByResource returned may fail to count, and then the
\* count of the batch it came from fails too.
\* ------------------------------------------------------------------------
C27_SplitChecksOnlyTopLevelFraming ==
    /\ (pc \notin {"start", "counted"} /\ Decode(data).ok) =>
          /\ extractRet.err = Nil
          /\ ~splits.isNil
          /\ splits.elems = Entries(data, {1})
    /\ (pc = "countedResource" /\ directRet.err # Nil) =>
          /\ countRet.err # Nil
          /\ Current = Entries(data, {1})[i + 1]

\* the split has returned a resource that does not decode and does not
\* count, from a batch that does not count
C27_Witness ==
    /\ pc = "countedResource"
    /\ ~splits.isNil
    /\ Len(splits.elems) = 1
    /\ ~Decode(splits.elems[1]).ok
    /\ directRet.err # Nil
    /\ countRet.err # Nil

\* ------------------------------------------------------------------------
\* C28: a Metric that holds more than one variant container, of different
\* variants or of the same one, counts as the sum of the data points of
\* all its containers; nothing checks that exactly one variant is present.
\* ------------------------------------------------------------------------
\* the first Metric of the first scope of the first resource of b
FirstMetric(b) == Entries(Entries(Entries(b, {1})[1], {2})[1], {2})[1]

\* its variant containers, as decoded fields
VariantFields(b) ==
    SelectSeq(Decode(FirstMetric(b)).fields,
              LAMBDA f : f.num \in VariantNums /\ f.typ = BytesType)

\* the data points of all containers
VariantPoints(b) ==
    SumSeq([j \in 1..Len(VariantFields(b)) |-> Len(Entries(VariantFields(b)[j].v, {1}))])

C28_AllVariantContainersAreCounted ==
    /\ pc # "start" =>
          /\ countRet.err = Nil
          /\ originalCount = VariantPoints(data)
    /\ pc = "countedResource" =>
          directRet = [count |-> VariantPoints(data), err |-> Nil]

\* a Sum with two data points followed by a Summary with one
C28_Witness ==
    /\ pc = "counted"
    /\ Len(VariantFields(data)) = 2
    /\ VariantFields(data)[1].num = 7
    /\ VariantFields(data)[2].num = 11
    /\ Len(Entries(VariantFields(data)[1].v, {1})) = 2
    /\ Len(Entries(VariantFields(data)[2].v, {1})) = 1
    /\ originalCount = 3

\* ------------------------------------------------------------------------
\* C29: the payload of a counted leaf is never read.  Whatever bytes a
\* data point, log record or span of correctly declared length holds, also
\* bytes that are not protobuf, the pass succeeds and counts the leaf: the
\* result is that of the same batch with ordinary leaves.
\* ------------------------------------------------------------------------
RECURSIVE Leaves(_, _)
\* the payloads of the leaves reached from b along path, in order
Leaves(b, path) ==
    LET es == Entries(b, path[1])
    IN  IF Len(path) = 1 THEN es
        ELSE Concat([j \in 1..Len(es) |-> Leaves(es[j], Tail(path))])

\* data with the payload of every leaf replaced by LeafPayload
OrdinaryLeaves == LeafBatch(kind, [j \in 1..Len(Leaves(data, Path(kind))) |-> LeafPayload])

C29_LeafContentIsNotParsed ==
    /\ pc # "start" =>
          /\ countRet = [count |-> Len(Leaves(data, Path(kind))), err |-> Nil]
          /\ countRet = countBatch(kind, OrdinaryLeaves)
          /\ originalCount = Count(kind, OrdinaryLeaves)
    /\ pc = "countedResource" =>
          directRet = [count |-> Len(Leaves(data, Path(kind))), err |-> Nil]

\* two leaves are counted, the second of which does not decode
C29_Witness ==
    /\ pc = "counted"
    /\ Len(Leaves(data, Path(kind))) = 2
    /\ ~Decode(Leaves(data, Path(kind))[2]).ok
    /\ Len(Leaves(data, Path(kind))[2]) = MaxRawLen - 2
    /\ countRet = [count |-> 2, err |-> Nil]

\* ------------------------------------------------------------------------
\* C30: counting is additive under concatenation.  For two well-formed
\* batches a and b of one signal kind, the count of the bytes of a followed
\* by the bytes of b is count(a) + count(b), and all three passes succeed.
\* ------------------------------------------------------------------------
C30_CountIsAdditive ==
    concat.read =>
        /\ concat.whole.err = Nil
        /\ concat.left.err = Nil
        /\ concat.right.err = Nil
        /\ concat.whole.count = concat.left.count + concat.right.count

\* a batch of 2 leaves followed by a batch of two resources with 1 and 2
\* leaves
C30_Witness ==
    /\ concat.read
    /\ 0 < concat.cut /\ concat.cut < Len(data)
    /\ concat.left.count = 2
    /\ concat.right.count = 3
    /\ concat.whole.count = 5
    /\ Len(Entries(data, {1})) = 3

====
